---------------------------- MODULE Spec2Model ----------------------------
(***************************************************************************)
(* A model of torch_ecg's channel bookkeeping (models/cnn/densenet.py),    *)
(* hierarchical configuration merge (cfg.py), the LTAFDB annotation reader *)
(* (databases/physionet_databases/ltafdb.py), the database base classes    *)
(* (databases/base.py) and archive extraction (utils/download.py).         *)
(*                                                                         *)
(* The specifications of the module:                                       *)
(*   SpecDense  constructors and methods of the DenseNet building blocks   *)
(*   SpecCfg    CFG.update on a configuration object                       *)
(*   SpecLtaf   LTAFDB.load_rhythm_ann, load_ann and plot, and the cache   *)
(*              file                                                       *)
(*   SpecBeat   LTAFDB.load_beat_ann and load_rpeak_indices                *)
(*   SpecData   _normalize_leads and PhysioNetDataBase.load_data           *)
(*   SpecVersion  PhysioNetDataBase.version and the methods that read it   *)
(*   SpecEdf    NSRRDataBase.safe_edf_file_operation                       *)
(*   SpecTar    _safe_tar_extract and http_get (utils/download.py)         *)
(* Every call is recorded in `call` (operation, arguments, result).        *)
(***************************************************************************)
EXTENDS Integers, Sequences, FiniteSets, TLC

VARIABLES
    call,       \* the last call made: [op, args, ret]
    module,     \* SpecDense: the nn.Module held by the caller
    self_cfg,   \* SpecCfg: the CFG object `self`
    nested_class, \* SpecCfg: the class easydict gives a nested dict value
    record,     \* SpecLtaf: the record on disk (header and .atr annotations)
    ann_file,   \* SpecLtaf: the cache file {rec}_ann.json
    reader,     \* the database reader object (databases/base.py)
    disk        \* SpecTar, SpecVersion: the entries of the file system

vars == <<call, module, self_cfg, nested_class, record, ann_file, reader, disk>>
denseVars == <<module>>
cfgVars == <<self_cfg, nested_class>>
ltafVars == <<record, ann_file>>
baseVars == <<reader, disk>>

(***************************************************************************)
(* Bounds of the model                                                     *)
(***************************************************************************)
MaxChannels == 4     \* in_channels of a block drawn from 1..MaxChannels
MaxGrowth == 3       \* growth rates drawn from 1..MaxGrowth
MaxGroups == 2       \* groups drawn from 1..MaxGroups
MaxLayers == 2       \* num_layers of a macro block drawn from 1..MaxLayers
MaxSeqLen == 2       \* seq_len / batch_size drawn from None and 1..MaxSeqLen

(***************************************************************************)
(* Python values                                                           *)
(***************************************************************************)
\* Python's None where an int is expected (Optional[int]); real values are >= 0
None == -1

\* an `int` argument and a `Sequence` argument of a Union[Sequence[int], int];
\* the int is kept in a one-element sequence, so that both have one shape
IntArg(v) == [t |-> "int", v |-> <<v>>]
SeqArg(s) == [t |-> "seq", v |-> s]
\* the same for Union[Sequence[Union[Sequence[int], int]], int]
NetIntArg(v) == [t |-> "int", v |-> <<IntArg(v)>>]

AssertionError == [ok |-> FALSE, kind |-> "AssertionError"]
ValueError == [ok |-> FALSE, kind |-> "ValueError"]
RuntimeError == [ok |-> FALSE, kind |-> "RuntimeError"]
NoModule == [ok |-> FALSE, kind |-> "none"]

\* what a call returning None returns
ReturnsNone == [ok |-> TRUE, kind |-> "None"]

\* str.lower() on the strings the model's arguments hold: those with an
\* upper-case letter are listed, the others are their own lower case
Lower(s) ==
    CASE s = "ALL" -> "all" [] s = "All" -> "all" [] s = "Channel_First" -> "channel_first"
      [] s = "LEAD_LAST" -> "lead_last" [] s = "Flat" -> "flat" [] s = "PLAIN" -> "plain"
      [] s = "mV" -> "mv" [] s = "MV" -> "mv" [] s = "uV" -> "uv"
      [] s = "muV" -> "muv" [] s = "μV" -> "μv" [] s = "ECG1" -> "ecg1"
      [] s = "ECG2" -> "ecg2" [] s = "ECG3" -> "ecg3" [] s = "Basic" -> "basic"
      [] s = "BASIC" -> "basic" [] s = "Basic_Block" -> "basic_block" [] s = "BASIC_BLOCK" -> "basic_block"
      [] s = "Bottleneck" -> "bottleneck" [] s = "BottleNeck" -> "bottleneck" [] s = "BOTTLENECK" -> "bottleneck"
      [] s = "Interval" -> "interval" [] s = "INTERVAL" -> "interval" [] s = "Mask" -> "mask"
      [] s = "MASK" -> "mask" [] s = "Beat" -> "beat" [] s = "BEAT" -> "beat"
      [] s = "Dict" -> "dict" [] s = "DICT" -> "dict" [] s = "A" -> "a"
      [] s = "N" -> "n" [] s = "Q" -> "q" [] s = "V" -> "v"
      [] s = "AB" -> "ab" [] s = "AFIB" -> "afib" [] s = "B" -> "b"
      [] s = "IVR" -> "ivr" [] s = "NOISE" -> "noise" [] s = "SBR" -> "sbr"
      [] s = "SVTA" -> "svta" [] s = "T" -> "t" [] s = "VT" -> "vt"
      [] s = "(AB" -> "(ab" [] s = "(AFIB" -> "(afib" [] s = "(B" -> "(b"
      [] s = "(IVR" -> "(ivr" [] s = "(N" -> "(n" [] s = "(SBR" -> "(sbr"
      [] s = "(SVTA" -> "(svta" [] s = "(T" -> "(t" [] s = "(VT" -> "(vt"
      [] OTHER -> s

Min(a, b) == IF a <= b THEN a ELSE b
Max(a, b) == IF a >= b THEN a ELSE b

\* itertools.repeat(x, n) made a list
Repeat(x, n) == [i \in 1..n |-> x]

\* s[a:b] of a Python sequence, 0 <= a
Slice(s, a, b) == SubSeq(s, a + 1, Min(b, Len(s)))

\* torch.cat(list, dim=1) on the channel axis
RECURSIVE Cat(_)
Cat(parts) == IF parts = <<>> THEN <<>> ELSE Head(parts) \o Cat(Tail(parts))

RECURSIVE SumSeq(_)
SumSeq(s) == IF s = <<>> THEN 0 ELSE Head(s) + SumSeq(Tail(s))

(***************************************************************************)
(* Tensors: only the channel axis is modelled.  A tensor is the sequence   *)
(* of its channels, each channel named by where it comes from.             *)
(***************************************************************************)
InputTensor(c) == [i \in 1..c |-> [src |-> "input", ch |-> i - 1]]
NewFeatures(c) == [i \in 1..c |-> [src |-> "new", ch |-> i - 1]]

\* Conv_Bn_Activation(in_channels, out_channels, groups): the grouped
\* convolution needs both channel counts divisible by groups
ConvGroupsOk(in_channels, out_channels, groups) ==
    in_channels % groups = 0 /\ out_channels % groups = 0

(***************************************************************************)
(* DenseBasicBlock                                                         *)
(***************************************************************************)
DenseBasicBlock(in_channels, growth_rate, filter_length, groups) ==
    IF in_channels % groups # 0 THEN AssertionError
    ELSE IF growth_rate % groups # 0 THEN AssertionError
    ELSE [ok |-> TRUE, kind |-> "DenseBasicBlock",
          in_channels |-> in_channels, growth_rate |-> growth_rate,
          kernel_size |-> filter_length, groups |-> groups]

(***************************************************************************)
(* DenseBottleNeck                                                         *)
(***************************************************************************)
DenseBottleNeck(in_channels, growth_rate, bn_size, filter_length, groups) ==
    LET bottleneck_channels == bn_size * growth_rate IN
    IF ~ConvGroupsOk(in_channels, bottleneck_channels, groups) THEN ValueError
    ELSE IF ~ConvGroupsOk(bottleneck_channels, growth_rate, groups) THEN ValueError
    ELSE [ok |-> TRUE, kind |-> "DenseBottleNeck",
          in_channels |-> in_channels, growth_rate |-> growth_rate,
          bn_size |-> bn_size,
          kernel_size |-> filter_length, groups |-> groups]

\* output = torch.cat(...) of forward, from the input and the new features
ConcatPlainMutant(blk, input, new_features) ==
    Cat(<<input, new_features>>)

ConcatGroupsMutant(blk, input, new_features) ==
    IF blk.groups = 1
    THEN Cat(<<new_features, input>>)
    ELSE LET iw_per_group == blk.in_channels \div blk.groups
             nfw_per_group == blk.growth_rate \div blk.groups
         IN Cat([g \in 1..blk.groups |->
                   Slice(new_features, nfw_per_group * (g - 1), nfw_per_group * g)
                   \o Slice(input, iw_per_group * (g - 1), iw_per_group * g)])

ConcatGroups(blk, input, new_features) ==
    IF blk.groups = 1
    THEN Cat(<<input, new_features>>)
    ELSE LET iw_per_group == blk.in_channels \div blk.groups
             nfw_per_group == blk.growth_rate \div blk.groups
         IN Cat([g \in 1..blk.groups |->
                   Slice(input, iw_per_group * (g - 1), iw_per_group * g)
                   \o Slice(new_features, nfw_per_group * (g - 1), nfw_per_group * g)])

\* DenseBasicBlock.forward and DenseBottleNeck.forward; the convolution
\* rejects an input whose channel count is not in_channels
BlockForward(blk, input) ==
    IF Len(input) # blk.in_channels THEN RuntimeError
    ELSE [ok |-> TRUE, kind |-> "Tensor",
          channels |-> ConcatGroups(blk, input, NewFeatures(blk.growth_rate))]

BlockOutputShapeMutant(blk, seq_len, batch_size) ==
    <<batch_size, blk.growth_rate, seq_len>>

\* DenseBasicBlock.compute_output_shape, DenseBottleNeck.compute_output_shape
BlockOutputShape(blk, seq_len, batch_size) ==
    LET out_channels == blk.in_channels + blk.growth_rate
    IN <<batch_size, out_channels, seq_len>>


(***************************************************************************)
(* DenseMacroBlock                                                         *)
(***************************************************************************)
\* `list(repeat(x, num_layers))` for an int, `list(x)` for a sequence
ListOfArg(arg, n) == IF arg.t = "int" THEN Repeat(arg.v[1], n) ELSE arg.v

\* the class the macro block instantiates, from
\* config.get("building_block", "").lower()
BuildingBlock(building_block, in_channels, growth_rate, bn_size, filter_length, groups) ==
    IF Lower(building_block) \in {"basic", "basic_block"}
    THEN DenseBasicBlock(in_channels, growth_rate, filter_length, groups)
    ELSE DenseBottleNeck(in_channels, growth_rate, bn_size, filter_length, groups)

\* in_channels handed to the building block at position idx (0-based)
BlockInChannels(in_channels, growth_rates, idx) ==
    in_channels + idx * growth_rates[idx + 1]

\* the loop `for idx in range(num_layers)` of DenseMacroBlock.__init__,
\* from position idx on; an exception of a block's constructor propagates
RECURSIVE AddBuildingBlocks(_, _, _, _, _, _, _, _, _)
AddBuildingBlocks(building_block, in_channels, num_layers, growth_rates, bn_size, filter_lengths, groups, idx, blocks) ==
    IF idx >= num_layers THEN [ok |-> TRUE, blocks |-> blocks]
    ELSE LET blk == BuildingBlock(building_block,
                        BlockInChannels(in_channels, growth_rates, idx),
                        growth_rates[idx + 1], bn_size,
                        filter_lengths[idx + 1], groups)
         IN IF ~blk.ok THEN blk
            ELSE AddBuildingBlocks(building_block, in_channels, num_layers,
                     growth_rates, bn_size, filter_lengths, groups, idx + 1,
                     Append(blocks, blk))

DenseMacroBlock(in_channels, num_layers, growth_rates, bn_size, filter_lengths, groups, building_block) ==
    LET grs == ListOfArg(growth_rates, num_layers)
        fls == ListOfArg(filter_lengths, num_layers)
    IN IF Len(grs) # num_layers THEN AssertionError
       ELSE IF Len(fls) # num_layers THEN AssertionError
       ELSE LET built == AddBuildingBlocks(building_block, in_channels, num_layers,
                             grs, bn_size, fls, groups, 0, <<>>)
            IN IF ~built.ok THEN built
               ELSE [ok |-> TRUE, kind |-> "DenseMacroBlock",
                     in_channels |-> in_channels, num_layers |-> num_layers,
                     growth_rates |-> grs, filter_lengths |-> fls,
                     groups |-> groups, blocks |-> built.blocks]

\* compute_sequential_output_shape: every module's compute_output_shape in
\* turn, the sequence length of one handed to the next; the last one's shape
RECURSIVE SequentialOutputShape(_, _, _)
SequentialOutputShape(blocks, seq_len, batch_size) ==
    LET shape == BlockOutputShape(Head(blocks), seq_len, batch_size)
    IN IF Len(blocks) = 1 THEN shape
       ELSE SequentialOutputShape(Tail(blocks), shape[3], batch_size)

\* DenseMacroBlock.compute_output_shape
MacroOutputShape(dmb, seq_len, batch_size) ==
    SequentialOutputShape(dmb.blocks, seq_len, batch_size)

(***************************************************************************)
(* DenseTransition.  compression is the float the caller writes as the     *)
(* fraction num/den (num >= 0, den > 0): the double nearest to it.         *)
(***************************************************************************)
Compression(num, den) == [num |-> num, den |-> den]

\* 2^n modulo m
RECURSIVE Pow2Mod(_, _)
Pow2Mod(n, m) == IF n = 0 THEN 1 % m ELSE (2 * Pow2Mod(n - 1, m)) % m

\* the e with 2^e <= k < 2^(e+1), for an integer k >= 1, from e up
RECURSIVE Log2Floor(_, _)
Log2Floor(k, e) == IF 2^(e + 1) <= k THEN Log2Floor(k, e + 1) ELSE e

\* the binary exponent of the double num/den: the e with
\* 2^e <= num/den < 2^(e+1), from t = 0 up (e = -t below one)
RECURSIVE BinaryExponent(_, _, _)
BinaryExponent(num, den, t) ==
    IF num >= den
    THEN IF den * 2^(t + 1) <= num THEN BinaryExponent(num, den, t + 1) ELSE t
    ELSE IF num * 2^t < den THEN BinaryExponent(num, den, t + 1) ELSE -t

\* the double nearest to num/den is m / 2^s with s = 52 - e and 53 bits in m;
\* the remainder of num * 2^s by den tells on which side of num/den it lies
\* and how far: below by r / (den * 2^s) when 2 * r < den, else not below
MantissaRemainder(num, den) ==
    ((num % den) * Pow2Mod(52 - BinaryExponent(num, den, 0), den)) % den

\* math.floor(iw_per_group * compression), the product of two doubles
\* rounded to a double.  Where iw_per_group * num / den is no integer the
\* rounding (less than 2^-40 here) does not reach the next integer.  Where
\* it is the integer k, the double of num/den lies below num/den by
\* r / (den * 2^s) or not below; the product then lies below k by
\* iw_per_group * r / (den * 2^s), and it is rounded to the double before k
\* when that is more than half the distance of the two: 2^(j - 53) for
\* 2^j < k < 2^(j+1), 2^(j - 54) for k = 2^j (a tie goes to k, the even one)
FloorMul(iw_per_group, compression) ==
    LET num == compression.num
        den == compression.den
        k == (iw_per_group * num) \div den
        RoundedDown(r, e, j) ==
            (IF k = 2^j THEN 4 ELSE 2) * iw_per_group * r > den * 2^(j - e)
    IN IF (iw_per_group * num) % den # 0 \/ k = 0 THEN k
       ELSE IF 2 * MantissaRemainder(num, den) >= den THEN k
       ELSE IF RoundedDown(MantissaRemainder(num, den), BinaryExponent(num, den, 0), Log2Floor(k, 0))
       THEN k - 1
       ELSE k

TransitionOutChannels(in_channels, compression, groups) ==
    LET iw_per_group == in_channels \div groups
        nfw_per_group == FloorMul(iw_per_group, compression)
    IN nfw_per_group * groups

DenseTransition(in_channels, compression, subsample_length, groups) ==
    IF ~(0 < compression.num /\ compression.num <= compression.den
         /\ in_channels % groups = 0)
    THEN AssertionError
    ELSE LET out_channels == TransitionOutChannels(in_channels, compression, groups)
         IN [ok |-> TRUE, kind |-> "DenseTransition",
             in_channels |-> in_channels, compression |-> compression,
             subsample_length |-> subsample_length, groups |-> groups,
             out_channels |-> out_channels]

\* DenseTransition.compute_output_shape()[1]: the channels the 1x1
\* convolution puts out, which the down-sampling keeps
TransitionOutputChannels(dt) == dt.out_channels

(***************************************************************************)
(* DenseNet.  A configuration is a record of the keys __init__ reads.      *)
(***************************************************************************)

\* the loop `for idx, macro_num_layers in enumerate(config.num_layers)`,
\* from position idx on, with the modules added so far
RECURSIVE AddMacroBlocks(_, _, _, _, _, _, _)
AddMacroBlocks(cfg, growth_rates, filter_lengths, subsample_lengths, idx, macro_in_channels, modules) ==
    LET num_blocks == Len(cfg.num_layers) IN
    IF idx >= num_blocks THEN [ok |-> TRUE, modules |-> modules]
    ELSE LET dmb == DenseMacroBlock(macro_in_channels, cfg.num_layers[idx + 1],
                        growth_rates[idx + 1], cfg.bn_size,
                        filter_lengths[idx + 1], cfg.groups, cfg.building_block)
         IN IF ~dmb.ok THEN dmb
            ELSE LET transition_in_channels == MacroOutputShape(dmb, None, None)[2]
                 IN IF idx < num_blocks - 1
                    THEN LET dt == DenseTransition(transition_in_channels,
                                       cfg.compression, subsample_lengths[idx + 1],
                                       cfg.groups)
                         IN IF ~dt.ok THEN dt
                            ELSE AddMacroBlocks(cfg, growth_rates, filter_lengths,
                                     subsample_lengths, idx + 1,
                                     TransitionOutputChannels(dt),
                                     modules \o <<dmb, dt>>)
                    ELSE AddMacroBlocks(cfg, growth_rates, filter_lengths,
                             subsample_lengths, idx + 1, macro_in_channels,
                             Append(modules, dmb))

DenseNet(in_channels, cfg) ==
    LET num_blocks == Len(cfg.num_layers)
        init_cba == [kind |-> "Conv_Bn_Activation", ok |-> TRUE,
                     in_channels |-> in_channels,
                     out_channels |-> cfg.init_num_filters,
                     kernel_size |-> cfg.init_filter_length,
                     stride |-> 1, groups |-> cfg.groups]
        init_pool == [kind |-> "DownSample", ok |-> TRUE,
                      down_scale |-> cfg.init_pool_stride,
                      in_channels |-> cfg.init_num_filters,
                      kernel_size |-> cfg.init_pool_size,
                      padding |-> (cfg.init_pool_size - 1) \div 2]
        growth_rates == ListOfArg(cfg.growth_rates, num_blocks)
        filter_lengths == ListOfArg(cfg.filter_lengths, num_blocks)
        subsample_lengths == ListOfArg(cfg.subsample_lengths, num_blocks - 1)
    IN IF ~ConvGroupsOk(in_channels, cfg.init_num_filters, cfg.groups) THEN ValueError
       ELSE IF Len(growth_rates) # num_blocks THEN AssertionError
       ELSE IF Len(filter_lengths) # num_blocks THEN AssertionError
       ELSE IF Len(subsample_lengths) # num_blocks - 1 THEN AssertionError
       ELSE LET built == AddMacroBlocks(cfg, growth_rates, filter_lengths,
                             subsample_lengths, 0, cfg.init_num_filters,
                             <<init_cba, init_pool>>)
            IN IF ~built.ok THEN built
               ELSE [ok |-> TRUE, kind |-> "DenseNet",
                     in_channels |-> in_channels, config |-> cfg,
                     modules |-> built.modules]

\* DenseNet.compute_output_shape()[1]: the last module is the last macro block
NetOutputChannels(net) ==
    MacroOutputShape(net.modules[Len(net.modules)], None, None)[2]

(***************************************************************************)
(* Shipped configurations (model_configs/cnn.py) and the inputs of         *)
(* SpecDense                                                               *)
(***************************************************************************)
dense_net_vanilla ==
    [name |-> "dense_net_vanilla",
     num_layers |-> <<6, 6, 6, 6>>,
     init_num_filters |-> 64,
     init_filter_length |-> 25,
     init_pool_stride |-> 2,
     init_pool_size |-> 3,
     growth_rates |-> NetIntArg(16),
     filter_lengths |-> NetIntArg(15),
     subsample_lengths |-> IntArg(2),
     bn_size |-> 4,
     compression |-> Compression(1, 2),
     groups |-> 1,
     building_block |-> "basic"]

dense_net_leadwise ==
    [dense_net_vanilla EXCEPT !.name = "dense_net_leadwise",
                              !.init_num_filters = 12 * 8,
                              !.groups = 12]

\* _IN_CHANNELS of test_model_configs.py
TestInChannels == 12

\* all sequences over S of length lo..hi
SeqsOf(S, lo, hi) == UNION {[1..n -> S] : n \in lo..hi}

Channels == 1..MaxChannels
GrowthRates == 1..MaxGrowth
Groups == 1..MaxGroups
FilterLengths == {3, 5}
BnSizes == {1, 2}
BuildingBlocks == {"basic", "bottleneck"}
\* the name of the building block is case insensitive
MacroBuildingBlocks == BuildingBlocks \cup {"Basic", "BASIC_BLOCK"}
OptionalInts == {None} \cup (1..MaxSeqLen)

\* growth_rates of a macro block: an int, or a list (of the right length or not)
MacroGrowthArgs ==
    {IntArg(g) : g \in GrowthRates}
    \cup {SeqArg(s) : s \in SeqsOf(GrowthRates, 1, MaxLayers + 1)}

MacroFilterArgs == {IntArg(3), SeqArg(<<3>>), SeqArg(<<3, 5>>)}

\* compression factors k/4, from 0 to 1.5, and the thirds below 1
Compressions == {Compression(k, 4) : k \in 0..6} \cup {Compression(1, 3), Compression(2, 3)}

\* in_channels and compression of a transition; the last ones are inputs
\* whose product is an integer that the product of the doubles falls below
TransitionInputs ==
    {[in_channels |-> ic, compression |-> c] : ic \in 1..(2 * MaxChannels), c \in Compressions}
    \cup {[in_channels |-> 22, compression |-> Compression(15, 22)],
          [in_channels |-> 44, compression |-> Compression(15, 22)],
          [in_channels |-> 49, compression |-> Compression(1, 49)],
          [in_channels |-> 98, compression |-> Compression(1, 49)],
          [in_channels |-> 100, compression |-> Compression(29, 100)]}

\* growth_rates of one macro block of a network: an int or one rate per layer
NetBlockGrowthArgs(num_layers) ==
    {IntArg(g) : g \in GrowthRates}
    \cup {SeqArg(s) : s \in [1..num_layers -> GrowthRates]}

\* growth_rates of a network: an int, or one entry per macro block
NetGrowthArgs(num_layers) ==
    {NetIntArg(g) : g \in GrowthRates}
    \cup {SeqArg(s) : s \in {f \in [1..Len(num_layers) -> UNION {NetBlockGrowthArgs(n) : n \in 1..MaxLayers}] :
                              \A i \in 1..Len(num_layers) : f[i] \in NetBlockGrowthArgs(num_layers[i])}}
    \cup {SeqArg(<<IntArg(1)>>)}

NetNumLayers == {<<1>>, <<2>>, <<1, 2>>, <<2, 1>>, <<2, 2>>, <<1, 1, 2>>}

TestConfigs ==
    {[name |-> "test",
      num_layers |-> nl,
      init_num_filters |-> inf,
      init_filter_length |-> 5,
      init_pool_stride |-> 2,
      init_pool_size |-> 3,
      growth_rates |-> gr,
      filter_lengths |-> fl,
      subsample_lengths |-> sl,
      bn_size |-> 2,
      compression |-> c,
      groups |-> g,
      building_block |-> bb] :
        nl \in NetNumLayers, inf \in {2, 4}, gr \in UNION {NetGrowthArgs(n) : n \in NetNumLayers},
        fl \in {NetIntArg(3)}, sl \in {IntArg(2), SeqArg(<<2>>)},
        c \in {Compression(2, 4), Compression(4, 4)}, g \in Groups,
        bb \in BuildingBlocks}

\* init_conv_stride of a configuration that sets the key
InitConvStrides == {1, 2}

\* the shipped configurations with the documented key init_conv_stride set
\* (the shipped ones themselves do not set it)
StrideConfigs ==
    {cfg @@ [init_conv_stride |-> ics] :
        cfg \in {dense_net_vanilla, dense_net_leadwise}, ics \in InitConvStrides}

\* configurations with the building block's name in upper case, and with a
\* compression whose product with the 22 channels per group of the first
\* macro block's output is the integer 15
FloatConfigs ==
    {[name |-> "test",
      num_layers |-> <<1, 1>>,
      init_num_filters |-> 20 * g,
      init_filter_length |-> 5,
      init_pool_stride |-> 2,
      init_pool_size |-> 3,
      growth_rates |-> NetIntArg(2 * g),
      filter_lengths |-> NetIntArg(3),
      subsample_lengths |-> IntArg(2),
      bn_size |-> 2,
      compression |-> Compression(15, 22),
      groups |-> g,
      building_block |-> bb] :
        g \in Groups, bb \in {"Basic", "BASIC_BLOCK", "bottleneck"}}

NetConfigs == TestConfigs \cup {dense_net_vanilla, dense_net_leadwise} \cup StrideConfigs \cup FloatConfigs

(***************************************************************************)
(* Values of the variables a specification does not use                    *)
(***************************************************************************)
Idle == [op |-> "idle", args |-> <<>>, ret |-> <<>>]
NoCfg == <<>>
NoRecord == [sig_len |-> 0, ann |-> <<>>]
NoFile == [exists |-> FALSE, content |-> <<>>]
NoReader == [class |-> "none"]
NoDisk == {}

(***************************************************************************)
(* SpecDense: the caller constructs one module, then calls one method      *)
(***************************************************************************)
Constructors == {"DenseBasicBlock", "DenseBottleNeck", "DenseMacroBlock",
                 "DenseTransition", "DenseNet"}

\* the caller holds the module when the constructor returned, nothing when it raised
Held(m) == IF m.ok THEN m ELSE NoModule

InitDense ==
    /\ call = Idle
    /\ module = NoModule
    /\ self_cfg = NoCfg
    /\ nested_class = "CFG"
    /\ reader = NoReader
    /\ disk = NoDisk
    /\ record = NoRecord
    /\ ann_file = NoFile

NewDenseBasicBlock ==
    /\ call.op = "idle"
    /\ \E in_channels \in Channels, growth_rate \in GrowthRates,
          filter_length \in FilterLengths, groups \in Groups :
         LET m == DenseBasicBlock(in_channels, growth_rate, filter_length, groups)
         IN /\ module' = Held(m)
            /\ call' = [op |-> "DenseBasicBlock",
                        args |-> [in_channels |-> in_channels,
                                  growth_rate |-> growth_rate,
                                  filter_length |-> filter_length,
                                  groups |-> groups],
                        ret |-> m]
    /\ UNCHANGED <<cfgVars, ltafVars, baseVars>>

NewDenseBottleNeck ==
    /\ call.op = "idle"
    /\ \E in_channels \in Channels, growth_rate \in GrowthRates, bn_size \in BnSizes,
          filter_length \in FilterLengths, groups \in Groups :
         LET m == DenseBottleNeck(in_channels, growth_rate, bn_size, filter_length, groups)
         IN /\ module' = Held(m)
            /\ call' = [op |-> "DenseBottleNeck",
                        args |-> [in_channels |-> in_channels,
                                  growth_rate |-> growth_rate,
                                  bn_size |-> bn_size,
                                  filter_length |-> filter_length,
                                  groups |-> groups],
                        ret |-> m]
    /\ UNCHANGED <<cfgVars, ltafVars, baseVars>>

NewDenseMacroBlock ==
    /\ call.op = "idle"
    /\ \E in_channels \in Channels, num_layers \in 1..MaxLayers,
          growth_rates \in MacroGrowthArgs, filter_lengths \in MacroFilterArgs,
          groups \in Groups, building_block \in MacroBuildingBlocks :
         LET m == DenseMacroBlock(in_channels, num_layers, growth_rates, 2,
                                  filter_lengths, groups, building_block)
         IN /\ module' = Held(m)
            /\ call' = [op |-> "DenseMacroBlock",
                        args |-> [in_channels |-> in_channels,
                                  num_layers |-> num_layers,
                                  growth_rates |-> growth_rates,
                                  bn_size |-> 2,
                                  filter_lengths |-> filter_lengths,
                                  groups |-> groups,
                                  building_block |-> building_block],
                        ret |-> m]
    /\ UNCHANGED <<cfgVars, ltafVars, baseVars>>

NewDenseTransition ==
    /\ call.op = "idle"
    /\ \E input \in TransitionInputs, groups \in 1..(MaxGroups + 1) :
         LET m == DenseTransition(input.in_channels, input.compression, 2, groups)
         IN /\ module' = Held(m)
            /\ call' = [op |-> "DenseTransition",
                        args |-> [in_channels |-> input.in_channels,
                                  compression |-> input.compression,
                                  subsample_length |-> 2,
                                  groups |-> groups],
                        ret |-> m]
    /\ UNCHANGED <<cfgVars, ltafVars, baseVars>>

NewDenseNet ==
    /\ call.op = "idle"
    /\ \E cfg \in NetConfigs :
         LET m == DenseNet(TestInChannels, cfg)
         IN /\ module' = Held(m)
            /\ call' = [op |-> "DenseNet",
                        args |-> [in_channels |-> TestInChannels, cfg |-> cfg],
                        ret |-> m]
    /\ UNCHANGED <<cfgVars, ltafVars, baseVars>>

\* block(input) on a building block, for an input of any channel count
Forward ==
    /\ call.op \in {"DenseBasicBlock", "DenseBottleNeck"}
    /\ module.ok
    /\ \E c \in 1..(MaxChannels + 1) :
         call' = [op |-> "forward",
                  args |-> [input |-> InputTensor(c)],
                  ret |-> BlockForward(module, InputTensor(c))]
    /\ UNCHANGED <<denseVars, cfgVars, ltafVars, baseVars>>

\* block.compute_output_shape(seq_len, batch_size) on a building block
ComputeOutputShape ==
    /\ call.op \in {"DenseBasicBlock", "DenseBottleNeck"}
    /\ module.ok
    /\ \E seq_len \in OptionalInts, batch_size \in OptionalInts :
         call' = [op |-> "compute_output_shape",
                  args |-> [seq_len |-> seq_len, batch_size |-> batch_size],
                  ret |-> BlockOutputShape(module, seq_len, batch_size)]
    /\ UNCHANGED <<denseVars, cfgVars, ltafVars, baseVars>>

NextDense ==
    \/ NewDenseBasicBlock
    \/ NewDenseBottleNeck
    \/ NewDenseMacroBlock
    \/ NewDenseTransition
    \/ NewDenseNet
    \/ Forward
    \/ ComputeOutputShape

SpecDense == InitDense /\ [][NextDense]_vars

(***************************************************************************)
(* Claims about the DenseNet blocks, checked under SpecDense               *)
(***************************************************************************)
\* what a macro block puts out according to the documentation: its input
\* channels and what each of its building blocks adds
DocumentedOutChannels(dmb) == dmb.in_channels + SumSeq(dmb.growth_rates)

\* C1: in a DenseMacroBlock, the building block at position idx is built with
\* in_channels = the macro block's in_channels + g_0 + ... + g_{idx-1}, which
\* is the output channel count of the block before it (block 0: in_channels).
C1_BlockChain ==
    (call.op = "DenseMacroBlock" /\ call.ret.ok) =>
        \A idx \in 1..call.ret.num_layers :
            /\ call.ret.blocks[idx].in_channels
                   = call.args.in_channels
                     + SumSeq(SubSeq(call.ret.growth_rates, 1, idx - 1))
            /\ idx > 1 =>
                   call.ret.blocks[idx].in_channels
                       = BlockOutputShape(call.ret.blocks[idx - 1], None, None)[2]

\* C2: compute_output_shape of a building block returns
\* (batch_size, in_channels + growth_rate, seq_len), None passed through.
C2_BlockOutputShape ==
    call.op = "compute_output_shape" =>
        /\ Len(call.ret) = 3
        /\ call.ret[1] = call.args.batch_size
        /\ call.ret[2] - module.in_channels = module.growth_rate
        /\ call.ret[3] = call.args.seq_len

C2_Witness ==
    /\ call.op = "compute_output_shape"
    /\ module.kind = "DenseBottleNeck"
    /\ module.in_channels = 3
    /\ module.growth_rate = 2
    /\ call.args.batch_size = None
    /\ call.args.seq_len = 2
    /\ call.ret = <<None, 5, 2>>

\* C3: for groups = 1 the forward output of a building block is the input
\* channels, unchanged and in order, followed by the growth_rate new feature
\* channels; their number is what compute_output_shape reports.
C3_ForwardConcat ==
    (call.op = "forward" /\ call.ret.ok /\ module.groups = 1) =>
        LET out == call.ret.channels
            input == call.args.input
        IN /\ Len(out) = BlockOutputShape(module, None, None)[2]
           /\ \A i \in 1..module.in_channels : out[i] = input[i]
           /\ \A j \in 1..module.growth_rate :
                  out[module.in_channels + j] = [src |-> "new", ch |-> j - 1]

C3_Witness ==
    /\ call.op = "forward"
    /\ call.ret.ok
    /\ module.kind = "DenseBasicBlock"
    /\ module.groups = 1
    /\ module.in_channels = 3
    /\ module.growth_rate = 2
    /\ Len(call.ret.channels) = 5

\* C22: for groups > 1 the forward output of a building block lists, group
\* by group in order, the in_channels/groups input channels of the group and
\* then its growth_rate/groups new feature channels; it is a permutation of
\* the plain concatenation of input and new features, in_channels +
\* growth_rate channels long.
C22_GroupedForward ==
    (call.op = "forward" /\ call.ret.ok /\ module.groups > 1) =>
        LET out == call.ret.channels
            input == call.args.input
            iw == module.in_channels \div module.groups
            nfw == module.growth_rate \div module.groups
            plain == input \o NewFeatures(module.growth_rate)
        IN /\ Len(out) = module.in_channels + module.growth_rate
           /\ (iw + nfw) * module.groups = Len(out)
           /\ \A p \in 0..(Len(out) - 1) :
                LET g == p \div (iw + nfw)
                    o == p % (iw + nfw)
                IN out[p + 1] = IF o < iw THEN input[g * iw + o + 1]
                                ELSE [src |-> "new", ch |-> g * nfw + (o - iw)]
           /\ \A i \in 1..Len(plain) :
                Cardinality({p \in 1..Len(out) : out[p] = plain[i]}) = 1

\* two groups, four input channels, two new ones: in0 in1 new0 in2 in3 new1
C22_Witness ==
    /\ call.op = "forward"
    /\ call.ret.ok
    /\ module.groups = 2
    /\ module.in_channels = 4
    /\ module.growth_rate = 2
    /\ call.ret.channels[3] = [src |-> "new", ch |-> 0]
    /\ call.ret.channels[4] = [src |-> "input", ch |-> 2]

\* C4: DenseNet hands the channel counts from block to block: macro block 0
\* gets init_num_filters, transition idx gets the output channels of macro
\* block idx (its in_channels plus the sum of its growth rates), macro block
\* idx+1 gets the output channels of transition idx, and the network puts
\* out what the last macro block puts out.
C4_ChannelPropagation ==
    (call.op = "DenseNet" /\ call.ret.ok) =>
        LET mods == call.ret.modules
            num_blocks == Len(call.args.cfg.num_layers)
            Dmb(i) == mods[3 + 2 * i]
            Dt(i) == mods[4 + 2 * i]
        IN /\ Dmb(0).in_channels = call.args.cfg.init_num_filters
           /\ \A i \in 0..(num_blocks - 2) :
                  /\ Dt(i).in_channels = DocumentedOutChannels(Dmb(i))
                  /\ Dmb(i + 1).in_channels = Dt(i).out_channels
           /\ NetOutputChannels(call.ret)
                  = DocumentedOutChannels(Dmb(num_blocks - 1))

\* C5: DenseNet(in_channels=12, **cfg) can be constructed for both shipped
\* configurations: no construction-time assertion fails.
C5_ShippedConfigsConstruct ==
    (/\ call.op = "DenseNet"
     /\ call.args.in_channels = TestInChannels
     /\ call.args.cfg.name \in {"dense_net_vanilla", "dense_net_leadwise"})
        => call.ret.ok

\* C6: DenseTransition is constructed exactly when 0 < compression <= 1 and
\* groups divides in_channels (AssertionError otherwise); its output channel
\* count is groups * floor((in_channels / groups) * compression), a multiple
\* of groups, at most in_channels, and in_channels when compression is 1.
C6_TransitionCompression ==
    call.op = "DenseTransition" =>
        LET a == call.args
            c == a.compression
            valid == /\ 0 < c.num
                     /\ c.num <= c.den
                     /\ a.in_channels % a.groups = 0
        IN /\ valid <=> call.ret.ok
           /\ ~valid => call.ret.kind = "AssertionError"
           /\ valid =>
                 /\ call.ret.out_channels
                        = a.groups * (((a.in_channels \div a.groups) * c.num) \div c.den)
                 /\ call.ret.out_channels % a.groups = 0
                 /\ call.ret.out_channels <= a.in_channels
                 /\ (c.num = c.den => call.ret.out_channels = a.in_channels)

\* C20: a constructed DenseNet has as first module a convolution with
\* init_num_filters output channels, kernel size init_filter_length and
\* stride init_conv_stride (when the configuration sets that key), followed
\* by a pooling layer of kernel size init_pool_size and down-scale
\* init_pool_stride.
C20_InitLayers ==
    (call.op = "DenseNet" /\ call.ret.ok) =>
        LET cfg == call.args.cfg
            init_cba == module.modules[1]
            init_pool == module.modules[2]
        IN /\ init_cba.kind = "Conv_Bn_Activation"
           /\ init_cba.out_channels = cfg.init_num_filters
           /\ init_cba.kernel_size = cfg.init_filter_length
           /\ "init_conv_stride" \in DOMAIN cfg => init_cba.stride = cfg.init_conv_stride
           /\ init_pool.kind = "DownSample"
           /\ init_pool.kernel_size = cfg.init_pool_size
           /\ init_pool.down_scale = cfg.init_pool_stride

(***************************************************************************)
(* CFG (cfg.py): a mapping from keys to values.  A mapping is the sequence *)
(* of its items [k, v] in insertion order, which is the order `for k in`   *)
(* walks it.  A value is a leaf (an int) or a mapping; both carry the same *)
(* fields so that TLC can compare them: [t, leaf, sub].                    *)
(***************************************************************************)
MaxLeaf == 2         \* leaf values drawn from -1 and 1..MaxLeaf

EmptyMap == <<>>
Leaf(v) == [t |-> "leaf", leaf |-> v, sub |-> EmptyMap]
Map(c) == [t |-> "map", leaf |-> 0, sub |-> c]

Keys(items) == {items[i].k : i \in 1..Len(items)}
DictGet(items, key) == items[CHOOSE i \in 1..Len(items) : items[i].k = key].v

\* d[key] = value: a key already there keeps its position and gets the value
DictSet(items, key, value) ==
    IF key \in Keys(items)
    THEN [i \in 1..Len(items) |-> IF items[i].k = key THEN [k |-> key, v |-> value] ELSE items[i]]
    ELSE Append(items, [k |-> key, v |-> value])

\* isinstance(v, MutableMapping)
IsMapping(v) == v.t = "map"

\* setattr(self, k, v): a dict value is stored as a CFG of the same content
SetAttr(cfg, k, v) == DictSet(cfg, k, v)

\* dict.update(kwargs) of a plain dict: every key of kwargs replaces, the
\* keys that are new come after those of d
RECURSIVE DictUpdate(_, _)
DictUpdate(d, kwargs) ==
    IF kwargs = <<>> THEN d
    ELSE DictUpdate(DictSet(d, Head(kwargs).k, Head(kwargs).v), Tail(kwargs))

\* EasyDict.update(e) of a nested value that is a plain EasyDict:
\* setattr(self, k, e[k]) for every key of e, replacing what was there
EasyDictUpdate(self, e) == [ok |-> TRUE, cfg |-> DictUpdate(self, e)]

\* The class of a nested mapping is the one EasyDict.__setattr__ gives a dict
\* value: the class of the holder (self.__class__, so CFG) in one release of
\* easydict, plain EasyDict in another.  Both are outcomes of a build.
NestedClasses == {"CFG", "EasyDict"}

\* the loop `for k in _new_cfg` of CFG.update from the i-th item of _new_cfg
\* on; [ok, cfg]: whether it ended without exception, and self as it is
\* then.  self[k].update on an existing value that is no mapping raises
\* AttributeError, and what was updated before stays.
RECURSIVE CfgUpdateLoop(_, _, _, _)
CfgUpdateLoop(nested, self, new_cfg, i) ==
    IF i > Len(new_cfg) THEN [ok |-> TRUE, cfg |-> self]
    ELSE LET k == new_cfg[i].k IN
         IF IsMapping(new_cfg[i].v) /\ k \in Keys(self)
         THEN IF ~IsMapping(DictGet(self, k)) THEN [ok |-> FALSE, cfg |-> self]
              ELSE LET r == IF nested = "CFG"
                            THEN CfgUpdateLoop(nested, DictGet(self, k).sub, new_cfg[i].v.sub, 1)
                            ELSE EasyDictUpdate(DictGet(self, k).sub, new_cfg[i].v.sub)
                       updated == SetAttr(self, k, Map(r.cfg))
                   IN IF ~r.ok THEN [ok |-> FALSE, cfg |-> updated]
                      ELSE CfgUpdateLoop(nested, updated, new_cfg, i + 1)
         ELSE CfgUpdateLoop(nested, SetAttr(self, k, new_cfg[i].v), new_cfg, i + 1)

\* CFG.update(new_cfg, **kwargs).  new_kind is "none" (no positional
\* argument), "dict" or "CFG".  _new_cfg is new_cfg updated with kwargs: the
\* keys of new_cfg come first, then those only kwargs has.
CfgUpdate(nested, self, new_kind, new_cfg, kwargs) ==
    LET falsy == new_kind = "none" \/ new_cfg = EmptyMap
        base == IF falsy THEN EmptyMap ELSE new_cfg
        merged == IF kwargs = EmptyMap THEN [ok |-> TRUE, cfg |-> base]
                  ELSE IF falsy \/ new_kind = "CFG"
                       THEN CfgUpdateLoop(nested, base, kwargs, 1)
                       ELSE [ok |-> TRUE, cfg |-> DictUpdate(base, kwargs)]
    IN IF ~merged.ok THEN [ok |-> FALSE, cfg |-> self]
       ELSE CfgUpdateLoop(nested, self, merged.cfg, 1)

(***************************************************************************)
(* SpecCfg: a CFG object and one update of it.  The arguments of update    *)
(* have their keys in any order; the order of the keys of self plays no    *)
(* part in update, and they stand in the order hehe, haha and a, b.        *)
(***************************************************************************)
TopKeys == {"hehe", "haha"}
SubKeys == {"a", "b"}

\* the mappings made of the items, no key twice
Dicts(items) ==
    {s \in UNION {[1..n -> items] : n \in 0..Cardinality({x.k : x \in items})} :
        \A i, j \in 1..Len(s) : s[i].k = s[j].k => i = j}
InOrder(s) == Len(s) < 2 \/ s[1].k \in {"hehe", "a"}

LeafValues == {-1} \cup (1..MaxLeaf)
Leaves == {Leaf(v) : v \in LeafValues}
SubSubMaps == Dicts([k : SubKeys, v : {Leaf(v) : v \in 1..MaxLeaf}])
SubMaps == Dicts([k : SubKeys, v : Leaves \cup {Map(c) : c \in SubSubMaps}])
HeheValues == Leaves \cup {Map(c) : c \in SubMaps}
HahaValues == {Leaf(1), Map(<<[k |-> "a", v |-> Leaf(1)]>>)}
TopItems(hehe) == {[k |-> "hehe", v |-> h] : h \in hehe} \cup {[k |-> "haha", v |-> g] : g \in HahaValues}
Kwargs == {<<[k |-> "hehe", v |-> Map(<<[k |-> "a", v |-> Leaf(-1)]>>)]>>,
           <<[k |-> "haha", v |-> Leaf(2)]>>,
           <<[k |-> "hehe", v |-> Map(<<[k |-> "b", v |-> Map(<<[k |-> "a", v |-> Leaf(1)]>>)]>>)]>>}

\* the configurations update is called on
Cfgs ==
    {c \in Dicts(TopItems({h \in HeheValues : IsMapping(h) =>
                              /\ InOrder(h.sub)
                              /\ \A i \in 1..Len(h.sub) : InOrder(h.sub[i].v.sub)})) : InOrder(c)}

\* the configurations passed to update: those of at most two levels, and
\* those of three levels that mention one key per level
NewCfgs ==
    Dicts(TopItems({h \in HeheValues : IsMapping(h) =>
                       \/ \A j \in 1..Len(h.sub) : ~IsMapping(h.sub[j].v)
                       \/ Len(h.sub) = 1}))

InitCfg ==
    /\ call = Idle
    /\ module = NoModule
    /\ self_cfg \in Cfgs
    /\ nested_class \in NestedClasses
    /\ reader = NoReader
    /\ disk = NoDisk
    /\ record = NoRecord
    /\ ann_file = NoFile

DoUpdate(new_kind, new_cfg, kwargs) ==
    LET r == CfgUpdate(nested_class, self_cfg, new_kind, new_cfg, kwargs)
    IN /\ self_cfg' = r.cfg
       /\ call' = [op |-> "update",
                   args |-> [self |-> self_cfg, new_kind |-> new_kind,
                             new_cfg |-> new_cfg, kwargs |-> kwargs],
                   ret |-> IF r.ok THEN "None" ELSE "AttributeError"]

\* c.update(new_cfg)
UpdatePositional ==
    /\ call.op = "idle"
    /\ \E new_kind \in {"dict", "CFG"}, new_cfg \in NewCfgs :
         DoUpdate(new_kind, new_cfg, EmptyMap)
    /\ UNCHANGED <<nested_class, denseVars, ltafVars, baseVars>>

\* c.update(**kwargs)
UpdateKeywords ==
    /\ call.op = "idle"
    /\ \E kwargs \in NewCfgs :
         DoUpdate("none", EmptyMap, kwargs)
    /\ UNCHANGED <<nested_class, denseVars, ltafVars, baseVars>>

\* c.update(new_cfg, **kwargs)
UpdateBoth ==
    /\ call.op = "idle"
    /\ \E new_kind \in {"dict", "CFG"}, new_cfg \in {c \in NewCfgs : "haha" \notin Keys(c)}, kwargs \in Kwargs :
         DoUpdate(new_kind, new_cfg, kwargs)
    /\ UNCHANGED <<nested_class, denseVars, ltafVars, baseVars>>

NextCfg ==
    \/ UpdatePositional
    \/ UpdateKeywords
    \/ UpdateBoth

SpecCfg == InitCfg /\ [][NextCfg]_vars

\* the merge of C7: after holds old updated hierarchically by new
RECURSIVE Merged(_, _, _)
Merged(old, new, after) ==
    /\ Keys(after) = Keys(old) \cup Keys(new)
    /\ Len(after) = Cardinality(Keys(after))
    /\ \A k \in Keys(after) :
          IF k \notin Keys(new) THEN DictGet(after, k) = DictGet(old, k)
          ELSE IF k \notin Keys(old) THEN DictGet(after, k) = DictGet(new, k)
          ELSE IF IsMapping(DictGet(new, k)) /\ IsMapping(DictGet(old, k))
               THEN /\ IsMapping(DictGet(after, k))
                    /\ Merged(DictGet(old, k).sub, DictGet(new, k).sub, DictGet(after, k).sub)
               ELSE DictGet(after, k) = DictGet(new, k)

\* the configuration a call passes: new_cfg, or the keyword arguments
PassedCfg(args) == IF args.new_kind = "none" THEN args.kwargs ELSE args.new_cfg

\* C7: CFG.update merges hierarchically: where the new and the existing value
\* of a key are both mappings the existing sub-keys not mentioned are kept and
\* the mentioned ones take the new values (recursively); keys the new config
\* does not mention are unchanged; keys only in the new config are added.
C7_HierarchicalUpdate ==
    (/\ call.op = "update"
     /\ call.ret = "None"
     /\ (call.args.new_kind = "none" \/ call.args.kwargs = EmptyMap))
        => Merged(call.args.self, PassedCfg(call.args), self_cfg)

\* the example of the docstring
CfgDocstringExample ==
    /\ call.op = "update"
    /\ call.args.self = <<[k |-> "hehe", v |-> Map(<<[k |-> "a", v |-> Leaf(1)], [k |-> "b", v |-> Leaf(2)]>>)]>>
    /\ call.args.new_kind = "none"
    /\ call.args.kwargs = <<[k |-> "hehe", v |-> Map(<<[k |-> "a", v |-> Leaf(-1)]>>)]>>
    /\ call.ret = "None"
    /\ self_cfg = <<[k |-> "hehe", v |-> Map(<<[k |-> "a", v |-> Leaf(-1)], [k |-> "b", v |-> Leaf(2)]>>)]>>

(***************************************************************************)
(* LTAFDB: rhythm annotations of a record                                  *)
(*   src/torch_ecg/databases/physionet_databases/ltafdb.py                 *)
(*                                                                         *)
(* record is the record on disk: its signal length (header.sig_len) and    *)
(* its .atr annotations, a sequence of [sample, aux_note] in the file's    *)
(* order, samples ascending.  ann_file is the cache {rec}_ann.json.        *)
(* An interval is a pair <<a, b>>; a dict of interval lists is a function  *)
(* from rhythm names, read in the order of rhythm_types_map's keys.        *)
(***************************************************************************)
MaxSigLen == 3       \* header.sig_len of the records
MaxAnn == 2          \* a record holds 1..MaxAnn annotations

rhythm_types == <<"(N", "(AB", "(AFIB", "(B", "(IVR", "(SBR", "(SVTA", "(T", "(VT", "NOISE">>

\* rhythm.replace("(", "") on the members of rhythm_types
StripParen(rhythm) ==
    CASE rhythm = "(N" -> "N" [] rhythm = "(AB" -> "AB" [] rhythm = "(AFIB" -> "AFIB"
      [] rhythm = "(B" -> "B" [] rhythm = "(IVR" -> "IVR" [] rhythm = "(SBR" -> "SBR"
      [] rhythm = "(SVTA" -> "SVTA" [] rhythm = "(T" -> "T" [] rhythm = "(VT" -> "VT"
      [] OTHER -> rhythm

\* the keys of rhythm_types_map, in order
rhythm_keys == [i \in 1..Len(rhythm_types) |-> StripParen(rhythm_types[i])]

\* rhythm_types_map: name without "(" -> index in rhythm_types
rhythm_types_map ==
    [k \in {rhythm_keys[i] : i \in 1..Len(rhythm_keys)} |->
        (CHOOSE i \in 1..Len(rhythm_keys) : rhythm_keys[i] = k) - 1]

IsRhythmType(aux_note) == \E i \in 1..Len(rhythm_types) : rhythm_types[i] = aux_note

\* the loop over zip(critical_points, aux_note) from annotation i on
RECURSIVE BuildAnnLoop(_, _, _, _, _)
BuildAnnLoop(ann, start, current_rhythm, wfdb_ann, i) ==
    IF i > Len(wfdb_ann) THEN [ann |-> ann, start |-> start, current_rhythm |-> current_rhythm]
    ELSE LET idx == wfdb_ann[i].sample
             rhythm == wfdb_ann[i].aux_note
         IN IF ~IsRhythmType(rhythm)
            THEN BuildAnnLoop(ann, start, current_rhythm, wfdb_ann, i + 1)
            ELSE BuildAnnLoop([ann EXCEPT ![current_rhythm] = Append(@, <<start, idx>>)],
                              idx, StripParen(rhythm), wfdb_ann, i + 1)

\* BuildAnn with the last rhythm closed at the end of the signal
BuildAnnMutant(rec) ==
    LET empty == [k \in DOMAIN rhythm_types_map |-> <<>>]
        r == BuildAnnLoop(empty, 0, "NOISE", rec.ann, 1)
        last == rec.ann[Len(rec.ann)].sample
        closed == [r.ann EXCEPT ![r.current_rhythm] = Append(@, <<r.start, rec.sig_len>>)]
    IN [closed EXCEPT !["NOISE"] = Append(@, <<last, rec.sig_len>>)]

\* the intervals built from the .atr annotations, as written to the cache
BuildAnn(rec) ==
    LET empty == [k \in DOMAIN rhythm_types_map |-> <<>>]
        r == BuildAnnLoop(empty, 0, "NOISE", rec.ann, 1)
        last == rec.ann[Len(rec.ann)].sample
        closed == [r.ann EXCEPT ![r.current_rhythm] = Append(@, <<r.start, last>>)]
    IN [closed EXCEPT !["NOISE"] = Append(@, <<last, rec.sig_len>>)]

\* list.sort(key=lambda i: i[0]), stable
RECURSIVE InsertInterval(_, _)
InsertInterval(sorted, itv) ==
    IF sorted = <<>> THEN <<itv>>
    ELSE IF sorted[Len(sorted)][1] <= itv[1] THEN Append(sorted, itv)
    ELSE Append(InsertInterval(SubSeq(sorted, 1, Len(sorted) - 1), itv), sorted[Len(sorted)])

RECURSIVE SortIntervals(_)
SortIntervals(l_itv) ==
    IF l_itv = <<>> THEN <<>>
    ELSE InsertInterval(SortIntervals(SubSeq(l_itv, 1, Len(l_itv) - 1)), l_itv[Len(l_itv)])

RECURSIVE MergeSorted(_, _)
MergeSorted(merged, rest) ==
    IF rest = <<>> THEN merged
    ELSE IF merged = <<>> THEN MergeSorted(<<rest[1]>>, Tail(rest))
    ELSE LET prev == merged[Len(merged)]
             this == rest[1]
         IN IF prev[2] < this[1]
            THEN MergeSorted(Append(merged, this), Tail(rest))
            ELSE MergeSorted([merged EXCEPT ![Len(merged)] = <<prev[1], Max(prev[2], this[2])>>],
                             Tail(rest))

\* intervals_union: overlapping and book-ended intervals joined, ascending
intervals_union(interval_list) == MergeSorted(<<>>, SortIntervals(interval_list))

\* intervals_intersection of two intervals, degenerate results dropped:
\* the sequence of the one common interval, or the empty sequence
intervals_intersection(itv, other) ==
    LET a == Max(itv[1], other[1])
        b == Min(itv[2], other[2])
    IN IF a < b THEN <<<<a, b>>>> ELSE <<>>

RECURSIVE IntersectEach(_, _, _)
IntersectEach(this, window, i) ==
    IF i > Len(this) THEN <<>>
    ELSE intervals_intersection(this[i], window) \o IntersectEach(this, window, i + 1)

\* generalized_intervals_intersection(l_itv, [[sf, st]])
generalized_intervals_intersection(l_itv, window) ==
    IntersectEach(intervals_union(l_itv), window, 1)

\* `x or default`: None and 0 are both falsy
PyOr(x, default) == IF x = None \/ x = 0 THEN default ELSE x

\* ann.items(): the (rhythm, l_itv) pairs in key order
Items(ann) ==
    [i \in 1..Len(rhythm_keys) |-> [rhythm |-> rhythm_keys[i], l_itv |-> ann[rhythm_keys[i]]]]

\* line 308 and 309: every list cut to the window, empty lists dropped
HasIntervals(item) == Len(item.l_itv) > 0
WindowedItems(ann, sf, st) ==
    SelectSeq(Items([k \in DOMAIN ann |-> generalized_intervals_intersection(ann[k], <<sf, st>>)]),
              HasIntervals)

\* ann[itv[0] - sf : itv[1] - sf] = value, for the intervals from j on;
\* position p of the array is element p + 1 of the sequence
PaintSliceMutant(mask, itv, value, sf) ==
    [p \in 1..Len(mask) |-> IF itv[1] - sf <= p - 1 /\ p - 1 <= itv[2] - sf THEN value ELSE mask[p]]
PaintSlice(mask, itv, value, sf) ==
    [p \in 1..Len(mask) |-> IF itv[1] - sf <= p - 1 /\ p - 1 < itv[2] - sf THEN value ELSE mask[p]]

RECURSIVE PaintIntervals(_, _, _, _, _)
PaintIntervals(mask, l_itv, value, sf, j) ==
    IF j > Len(l_itv) THEN mask
    ELSE PaintIntervals(PaintSlice(mask, l_itv[j], value, sf), l_itv, value, sf, j + 1)

RECURSIVE PaintItems(_, _, _, _)
PaintItems(mask, items, sf, i) ==
    IF i > Len(items) THEN mask
    ELSE PaintItems(PaintIntervals(mask, items[i].l_itv, rhythm_types_map[items[i].rhythm], sf, 1),
                    items, sf, i + 1)

\* lines 311-315: the mask of the window
RhythmMask(items, sf, st) == PaintItems([p \in 1..(st - sf) |-> rhythm_types_map["N"]], items, sf, 1)

\* lines 317-318: [[itv[0] - sf, itv[1] - sf] for itv in l_itv] under every key
ShiftItemsMutant(items, sf) ==
    [i \in 1..Len(items) |->
        [rhythm |-> items[i].rhythm,
         l_itv |-> [j \in 1..Len(items[i].l_itv) |->
                       <<items[i].l_itv[j][1] - sf, items[i].l_itv[j][2]>>]]]
ShiftItems(items, sf) ==
    [i \in 1..Len(items) |->
        [rhythm |-> items[i].rhythm,
         l_itv |-> [j \in 1..Len(items[i].l_itv) |->
                       <<items[i].l_itv[j][1] - sf, items[i].l_itv[j][2] - sf>>]]]

\* LTAFDB.load_rhythm_ann: [ret, file], what is returned or raised and the
\* cache file afterwards.  json.dumps / json.loads of a dict of lists of
\* pairs of ints gives back the same keys, order and numbers.
load_rhythm_ann(rec, file, sampfrom, sampto, rhythm_format, keep_original) ==
    LET sig_len == rec.sig_len
        sf == PyOr(sampfrom, 0)
        st == PyOr(sampto, sig_len)
    IN IF Lower(rhythm_format) \notin {"interval", "mask"} THEN [ret |-> AssertionError, file |-> file]
       ELSE IF ~(st > sf) THEN [ret |-> AssertionError, file |-> file]
       ELSE LET ann == IF file.exists THEN file.content ELSE BuildAnn(rec)
                items == WindowedItems(ann, sf, st)
                ret == IF Lower(rhythm_format) = "mask"
                       THEN [ok |-> TRUE, kind |-> "mask", mask |-> RhythmMask(items, sf, st)]
                       ELSE IF ~keep_original
                       THEN [ok |-> TRUE, kind |-> "interval", intervals |-> ShiftItems(items, sf)]
                       ELSE [ok |-> TRUE, kind |-> "interval", intervals |-> items]
            IN [ret |-> ret, file |-> [exists |-> TRUE, content |-> ann]]

(***************************************************************************)
(* SpecLtaf: one record, its cache file absent or already written by an    *)
(* earlier call, and one call of load_rhythm_ann.                          *)
(***************************************************************************)
AuxNotes == {"(N", "(AFIB", ""}
AnnEntries == [sample : 0..MaxSigLen, aux_note : AuxNotes]
Ascending(a) == \A i \in 1..(Len(a) - 1) : a[i].sample <= a[i + 1].sample
Records ==
    {[sig_len |-> MaxSigLen, ann |-> a] :
        a \in {x \in UNION {[1..n -> AnnEntries] : n \in 1..MaxAnn} : Ascending(x)}}
SampFroms == {None} \cup (0..MaxSigLen)
SampTos == {None} \cup (0..(MaxSigLen + 1))
\* rhythm_format is case insensitive
RhythmFormats == {"interval", "mask", "MASK"}

InitLtaf ==
    /\ call = Idle
    /\ module = NoModule
    /\ self_cfg = NoCfg
    /\ nested_class = "CFG"
    /\ reader = NoReader
    /\ disk = NoDisk
    /\ record \in Records
    /\ ann_file \in {NoFile, [exists |-> TRUE, content |-> BuildAnn(record)]}

LoadRhythmAnn ==
    /\ call.op = "idle"
    /\ \E sampfrom \in SampFroms, sampto \in SampTos, rhythm_format \in RhythmFormats, keep_original \in BOOLEAN :
        LET r == load_rhythm_ann(record, ann_file, sampfrom, sampto, rhythm_format, keep_original)
        IN /\ call' = [op |-> "load_rhythm_ann",
                       args |-> [sampfrom |-> sampfrom, sampto |-> sampto,
                                 rhythm_format |-> rhythm_format,
                                 keep_original |-> keep_original, cached |-> ann_file],
                       ret |-> r.ret]
           /\ ann_file' = r.file
    /\ UNCHANGED <<record, denseVars, cfgVars, baseVars>>

\* what the last call of load_rhythm_ann returns when asked for the interval
\* format with keep_original=True, same record, cache and window
OriginalIntervals ==
    load_rhythm_ann(record, call.args.cached, call.args.sampfrom, call.args.sampto,
                    "interval", TRUE).ret.intervals

\* sample x lies in an interval [a, b) listed under rhythm k
CoveredBy(items, k, x) ==
    \E i \in 1..Len(items) :
        /\ items[i].rhythm = k
        /\ \E j \in 1..Len(items[i].l_itv) : items[i].l_itv[j][1] <= x /\ x < items[i].l_itv[j][2]

\* the rhythm the .atr annotations give sample x of the record: that of the
\* last rhythm annotation at or before x, NOISE before the first rhythm
\* annotation and from the last annotation on
RhythmAt(rec, x) ==
    LET valid == {i \in 1..Len(rec.ann) : IsRhythmType(rec.ann[i].aux_note) /\ rec.ann[i].sample <= x}
        last == CHOOSE i \in valid : \A j \in valid : j <= i
    IN IF valid = {} \/ x >= rec.ann[Len(rec.ann)].sample THEN "NOISE"
       ELSE StripParen(rec.ann[last].aux_note)

\* C8: position i of the rhythm mask holds rhythm_types_map[k] exactly when
\* sample sf + i lies in an interval [a, b) that the interval format with
\* keep_original=True reports for rhythm k in the same window (sf = sampfrom
\* or 0, st = sampto or signal length), it holds rhythm_types_map["N"] when no
\* interval covers it, and every mask value is a value of rhythm_types_map.
C8_MaskMatchesIntervals ==
    (call.op = "load_rhythm_ann" /\ Lower(call.args.rhythm_format) = "mask" /\ call.ret.ok) =>
        LET sf == PyOr(call.args.sampfrom, 0)
            st == PyOr(call.args.sampto, record.sig_len)
            mask == call.ret.mask
            names == DOMAIN rhythm_types_map
            Uncovered(x) == \A k \in names : ~CoveredBy(OriginalIntervals, k, x)
        IN /\ Len(mask) = st - sf
           /\ \A i \in 0..(st - sf - 1) :
                /\ \A k \in names :
                     /\ CoveredBy(OriginalIntervals, k, sf + i) => mask[i + 1] = rhythm_types_map[k]
                     /\ mask[i + 1] = rhythm_types_map[k] =>
                            \/ CoveredBy(OriginalIntervals, k, sf + i)
                            \/ k = "N" /\ Uncovered(sf + i)
                /\ Uncovered(sf + i) => mask[i + 1] = rhythm_types_map["N"]
                /\ \E k \in names : mask[i + 1] = rhythm_types_map[k]

\* a mask of a window that starts inside the record and ends past its end:
\* NOISE, AFIB and an uncovered position
C8_Witness ==
    /\ call.op = "load_rhythm_ann"
    /\ call.args.rhythm_format = "mask"
    /\ call.ret.ok
    /\ call.args.sampfrom = 1
    /\ call.args.sampto = record.sig_len + 1
    /\ call.ret.mask[1] = rhythm_types_map["AFIB"]
    /\ call.ret.mask[2] = rhythm_types_map["NOISE"]
    /\ call.ret.mask[record.sig_len] = rhythm_types_map["N"]
    /\ \A k \in DOMAIN rhythm_types_map : ~CoveredBy(OriginalIntervals, k, record.sig_len)

\* C9: for a window sampfrom < sampto the interval format with
\* keep_original=False returns, under the same keys in the same order, the
\* intervals of keep_original=True with sampfrom subtracted from both
\* endpoints; with keep_original=True the intervals lie in absolute sample
\* indices of the record: inside [sampfrom, sampto], ending at the window's
\* bounds or at samples of the annotation (0 and the signal length included),
\* each listed under the rhythm its samples have, every sample of the window
\* inside the record covered under its rhythm.
C9_KeepOriginalShift ==
    (/\ call.op = "load_rhythm_ann"
     /\ Lower(call.args.rhythm_format) = "interval"
     /\ call.args.sampfrom # None /\ call.args.sampto # None
     /\ call.args.sampfrom < call.args.sampto) =>
        LET sampfrom == call.args.sampfrom
            sampto == call.args.sampto
            orig == OriginalIntervals
            marks == {0, record.sig_len} \cup {record.ann[i].sample : i \in 1..Len(record.ann)}
        IN /\ call.ret.ok
           /\ LET got == call.ret.intervals
              IN IF ~call.args.keep_original
                 THEN /\ Len(got) = Len(orig)
                      /\ \A i \in 1..Len(got) :
                           /\ got[i].rhythm = orig[i].rhythm
                           /\ Len(got[i].l_itv) = Len(orig[i].l_itv)
                           /\ \A j \in 1..Len(got[i].l_itv) :
                                got[i].l_itv[j] = <<orig[i].l_itv[j][1] - sampfrom,
                                                    orig[i].l_itv[j][2] - sampfrom>>
                 ELSE /\ \A i \in 1..Len(got) : \A j \in 1..Len(got[i].l_itv) :
                           LET a == got[i].l_itv[j][1]
                               b == got[i].l_itv[j][2]
                           IN /\ sampfrom <= a /\ a < b /\ b <= sampto
                              /\ a \in marks \cup {sampfrom}
                              /\ b \in marks \cup {sampto}
                              /\ \A x \in a..(b - 1) : RhythmAt(record, x) = got[i].rhythm
                      /\ \A x \in sampfrom..(Min(sampto, record.sig_len) - 1) :
                           CoveredBy(got, RhythmAt(record, x), x)
                      /\ \A i \in 1..(Len(got) - 1) :
                           rhythm_types_map[got[i].rhythm] < rhythm_types_map[got[i + 1].rhythm]

\* keep_original=False in a window that starts at sample 1 and holds two
\* rhythms: the intervals come back shifted by one
C9_Witness ==
    /\ call.op = "load_rhythm_ann"
    /\ call.args.rhythm_format = "interval"
    /\ ~call.args.keep_original
    /\ call.args.sampfrom = 1
    /\ call.args.sampto = 3
    /\ call.ret.ok
    /\ call.ret.intervals = <<[rhythm |-> "AFIB", l_itv |-> << <<0, 1>> >>],
                              [rhythm |-> "NOISE", l_itv |-> << <<1, 2>> >>]>>
    /\ OriginalIntervals = <<[rhythm |-> "AFIB", l_itv |-> << <<1, 2>> >>],
                             [rhythm |-> "NOISE", l_itv |-> << <<2, 3>> >>]>>

\* C10: the rhythm mask has length sampto - sampfrom (the signal length when
\* no window is given), and it is the same for keep_original=True and
\* keep_original=False.
C10_MaskLength ==
    (call.op = "load_rhythm_ann" /\ Lower(call.args.rhythm_format) = "mask" /\ call.ret.ok) =>
        LET from == IF call.args.sampfrom = None THEN 0 ELSE call.args.sampfrom
            to == IF call.args.sampto = None THEN record.sig_len ELSE call.args.sampto
        IN /\ Len(call.ret.mask) = to - from
           /\ call.ret.mask = load_rhythm_ann(record, call.args.cached, call.args.sampfrom,
                                              call.args.sampto, "mask",
                                              ~call.args.keep_original).ret.mask

\* the segments the .atr annotations of a record describe, in order:
\* NOISE from 0 to the first rhythm annotation, every rhythm annotation's
\* rhythm up to the next rhythm annotation (the last one's up to the last
\* annotation of the file), NOISE from the last annotation to the signal's end
RhythmSegments(rec) ==
    LET n == Len(rec.ann)
        valid == {i \in 1..n : IsRhythmType(rec.ann[i].aux_note)}
        last == rec.ann[n].sample
        NextValid(i) == CHOOSE j \in valid : j > i /\ \A h \in valid : h > i => j <= h
        Until(i) == IF \E j \in valid : j > i THEN rec.ann[NextValid(i)].sample ELSE last
        first == CHOOSE i \in valid : \A j \in valid : i <= j
        head == [rhythm |-> "NOISE", itv |-> <<0, IF valid = {} THEN last ELSE rec.ann[first].sample>>]
        tail == [rhythm |-> "NOISE", itv |-> <<last, rec.sig_len>>]
        Started(i) == IF i \in valid
                      THEN <<[rhythm |-> StripParen(rec.ann[i].aux_note),
                              itv |-> <<rec.ann[i].sample, Until(i)>>]>>
                      ELSE <<>>
        Middle[i \in 0..n] == IF i = 0 THEN <<>> ELSE Middle[i - 1] \o Started(i)
    IN <<head>> \o Middle[n] \o <<tail>>

\* C11: the rhythm intervals built from the .atr annotations (and written to
\* the cache) are, rhythm by rhythm and in order, the segments the
\* annotations describe: NOISE at head and tail, a segment per annotation
\* with a valid rhythm aux_note lasting until the next such annotation (or
\* the last annotation), annotations with other aux_notes starting and ending
\* nothing.
C11_NoiseHeadTail ==
    (call.op = "load_rhythm_ann" /\ ~call.args.cached.exists /\ call.ret.ok) =>
        /\ ann_file.exists
        /\ DOMAIN ann_file.content = DOMAIN rhythm_types_map
        /\ \A k \in DOMAIN rhythm_types_map :
             LET OfRhythm(seg) == seg.rhythm = k
                 segs == SelectSeq(RhythmSegments(record), OfRhythm)
             IN ann_file.content[k] = [i \in 1..Len(segs) |-> segs[i].itv]

\* a cache built from a rhythm annotation at sample 1 followed by an
\* annotation that is no rhythm at sample 2
C11_Witness ==
    /\ call.op = "load_rhythm_ann"
    /\ ~call.args.cached.exists
    /\ call.ret.ok
    /\ record.ann = <<[sample |-> 1, aux_note |-> "(AFIB"], [sample |-> 2, aux_note |-> ""]>>
    /\ ann_file.exists
    /\ ann_file.content["AFIB"] = << <<1, 2>> >>
    /\ ann_file.content["NOISE"] = << <<0, 1>>, <<2, record.sig_len>> >>

(***************************************************************************)
(* LTAFDB: beat annotations and R-peak indices of a record                 *)
(*   load_beat_ann, load_rpeak_indices                                     *)
(*                                                                         *)
(* Here an annotation of the record also carries its symbol: a beat type,  *)
(* or "+" for a rhythm change (whose aux_note names the rhythm).           *)
(***************************************************************************)
beat_types == <<"A", "N", "Q", "V">>

IsBeatType(symbol) == \E i \in 1..Len(beat_types) : beat_types[i] = symbol

\* wfdb.rdann(fp, extension, sampfrom, sampto): the annotations with
\* sampfrom <= sample <= sampto, all from sampfrom on when sampto is None or
\* 0; ValueError when sampto is given and not greater than sampfrom
rdann(rec, sampfrom, sampto) ==
    IF sampto # None /\ sampto # 0 /\ sampto <= sampfrom THEN ValueError
    ELSE LET Kept(a) == /\ a.sample >= sampfrom
                        /\ (sampto = None \/ sampto = 0 \/ a.sample <= sampto)
         IN [ok |-> TRUE, kind |-> "Annotation", ann |-> SelectSeq(rec.ann, Kept)]

\* the loop of load_beat_ann: the samples of the annotations of beat type bt
SamplesOfType(wfdb_ann, bt) ==
    LET OfType(a) == a.symbol = bt
        kept == SelectSeq(wfdb_ann, OfType)
    IN [i \in 1..Len(kept) |-> kept[i].sample]

\* np.array(v, dtype=int) - sf
MinusMutant(v, sf) == [i \in 1..Len(v) |-> v[i] + sf]
Minus(v, sf) == [i \in 1..Len(v) |-> v[i] - sf]

\* [BeatAnn(i, s) for s, l in ann.items() for i in l], from beat type t on
RECURSIVE BeatList(_, _)
BeatList(ann, t) ==
    IF t > Len(beat_types) THEN <<>>
    ELSE [i \in 1..Len(ann[beat_types[t]]) |->
             [index |-> ann[beat_types[t]][i], symbol |-> beat_types[t]]]
         \o BeatList(ann, t + 1)

\* LTAFDB.load_beat_ann: what is returned or raised
load_beat_ann(rec, sampfrom, sampto, beat_format, keep_original) ==
    LET sig_len == rec.sig_len
        sf == PyOr(sampfrom, 0)
        st == PyOr(sampto, sig_len)
    IN IF Lower(beat_format) \notin {"beat", "dict"} THEN AssertionError
       ELSE IF ~(st > sf) THEN AssertionError
       ELSE LET wfdb_ann == rdann(rec, sf, sampto)
            IN IF ~wfdb_ann.ok THEN wfdb_ann
               ELSE LET found == [k \in {beat_types[i] : i \in 1..Len(beat_types)} |->
                                     SamplesOfType(wfdb_ann.ann, k)]
                        ann == IF ~keep_original /\ sampfrom # None
                               THEN [k \in DOMAIN found |-> Minus(found[k], sf)]
                               ELSE found
                    IN IF Lower(beat_format) = "beat"
                       THEN [ok |-> TRUE, kind |-> "beat", beats |-> BeatList(ann, 1)]
                       ELSE [ok |-> TRUE, kind |-> "dict", ann |-> ann]

\* wfdb_ann.sample[np.isin(wfdb_ann.symbol, self.beat_types)]
RpeakSamplesMutant(wfdb_ann) == SamplesOfType(wfdb_ann, "N")
RpeakSamples(wfdb_ann) ==
    LET IsBeat(a) == IsBeatType(a.symbol)
        kept == SelectSeq(wfdb_ann, IsBeat)
    IN [i \in 1..Len(kept) |-> kept[i].sample]

\* LTAFDB.load_rpeak_indices with use_manual=True (the .atr annotations)
load_rpeak_indices(rec, sampfrom, sampto, keep_original) ==
    LET wfdb_ann == rdann(rec, PyOr(sampfrom, 0), sampto)
    IN IF ~wfdb_ann.ok THEN wfdb_ann
       ELSE LET rpeak_inds == RpeakSamples(wfdb_ann.ann)
            IN [ok |-> TRUE, kind |-> "ndarray",
                rpeak_inds |-> IF ~keep_original /\ sampfrom # None
                               THEN Minus(rpeak_inds, sampfrom)
                               ELSE rpeak_inds]

(***************************************************************************)
(* The other public methods of LTAFDB that reach the cache file through    *)
(* load_rhythm_ann: load_ann and plot.                                     *)
(***************************************************************************)
\* the .atr annotations with their symbols: "+" marks a rhythm change, the
\* annotations without aux_note are normal beats
Atr(rec) ==
    [sig_len |-> rec.sig_len,
     ann |-> [i \in 1..Len(rec.ann) |->
                [sample |-> rec.ann[i].sample, aux_note |-> rec.ann[i].aux_note,
                 symbol |-> IF rec.ann[i].aux_note # "" THEN "+" ELSE "N"]]]

\* LTAFDB.load_ann: the beat annotations first, then the rhythm annotations
load_ann(rec, file, sampfrom, sampto, rhythm_format, beat_format, keep_original) ==
    LET Both(beat, rhythm) ==
            IF ~rhythm.ret.ok THEN rhythm
            ELSE [ret |-> [ok |-> TRUE, kind |-> "dict", beat |-> beat, rhythm |-> rhythm.ret],
                  file |-> rhythm.file]
        Rhythm(beat) ==
            IF ~beat.ok THEN [ret |-> beat, file |-> file]
            ELSE Both(beat, load_rhythm_ann(rec, file, sampfrom, sampto, rhythm_format, keep_original))
    IN Rhythm(load_beat_ann(Atr(rec), sampfrom, sampto, beat_format, keep_original))

\* wfdb.rdrecord(fp, sampfrom, sampto): sampto None is the signal length;
\* ValueError for a window outside the signal or with sampto <= sampfrom
rdrecord(rec, sampfrom, sampto) ==
    LET st == IF sampto = None THEN rec.sig_len ELSE sampto
    IN IF sampfrom > rec.sig_len \/ st > rec.sig_len \/ st <= sampfrom THEN ValueError
       ELSE [ok |-> TRUE, kind |-> "Record", sig_len |-> st - sampfrom]

\* LTAFDB.plot(rec, data, ann, sampfrom=sampfrom, sampto=sampto) with the
\* other arguments at their defaults; data and ann are given or None.  The
\* signal, the rhythms, the R peaks and the beats are loaded in this order
\* when data is None, then drawn.
plot(rec, file, data_given, ann_given, sampfrom, sampto) ==
    LET Drawn(_ann, _rpeak, _beat_ann) ==
            IF ~_ann.ret.ok THEN _ann
            ELSE IF ~_rpeak.ok THEN [ret |-> _rpeak, file |-> _ann.file]
            ELSE IF ~_beat_ann.ok THEN [ret |-> _beat_ann, file |-> _ann.file]
            ELSE [ret |-> ReturnsNone, file |-> _ann.file]
        Loaded(_data) ==
            IF ~_data.ok THEN [ret |-> _data, file |-> file]
            ELSE Drawn(IF ann_given THEN [ret |-> ReturnsNone, file |-> file]
                       ELSE load_rhythm_ann(rec, file, sampfrom, sampto, "interval", FALSE),
                       load_rpeak_indices(Atr(rec), sampfrom, sampto, FALSE),
                       load_beat_ann(Atr(rec), sampfrom, sampto, "dict", FALSE))
    IN IF data_given THEN [ret |-> ReturnsNone, file |-> file]
       ELSE Loaded(rdrecord(rec, PyOr(sampfrom, 0), sampto))

LoadAnn ==
    /\ call.op = "idle"
    /\ \E sampfrom \in SampFroms, sampto \in SampTos, rhythm_format \in RhythmFormats, beat_format \in {"beat", "dict", "Dict"}, keep_original \in BOOLEAN :
        LET r == load_ann(record, ann_file, sampfrom, sampto, rhythm_format, beat_format, keep_original)
        IN /\ call' = [op |-> "load_ann",
                       args |-> [sampfrom |-> sampfrom, sampto |-> sampto,
                                 rhythm_format |-> rhythm_format, beat_format |-> beat_format,
                                 keep_original |-> keep_original, cached |-> ann_file],
                       ret |-> r.ret]
           /\ ann_file' = r.file
    /\ UNCHANGED <<record, denseVars, cfgVars, baseVars>>

Plot ==
    /\ call.op = "idle"
    /\ \E data_given \in BOOLEAN, ann_given \in BOOLEAN, sampfrom \in SampFroms, sampto \in SampTos :
        LET r == plot(record, ann_file, data_given, ann_given, sampfrom, sampto)
        IN /\ call' = [op |-> "plot",
                       args |-> [data_given |-> data_given, ann_given |-> ann_given,
                                 sampfrom |-> sampfrom, sampto |-> sampto, cached |-> ann_file],
                       ret |-> r.ret]
           /\ ann_file' = r.file
    /\ UNCHANGED <<record, denseVars, cfgVars, baseVars>>

NextLtaf ==
    \/ LoadRhythmAnn
    \/ LoadAnn
    \/ Plot

SpecLtaf == InitLtaf /\ [][NextLtaf]_vars

(***************************************************************************)
(* SpecBeat: one record and one call of load_beat_ann or                   *)
(* load_rpeak_indices.                                                     *)
(***************************************************************************)
AnnKinds == {[aux_note |-> "(AFIB", symbol |-> "+"],
             [aux_note |-> "", symbol |-> "N"],
             [aux_note |-> "", symbol |-> "V"]}
BeatAnnEntries ==
    {[sample |-> x, aux_note |-> k.aux_note, symbol |-> k.symbol] : x \in 0..MaxSigLen, k \in AnnKinds}
BeatRecords ==
    {[sig_len |-> MaxSigLen, ann |-> a] :
        a \in {x \in UNION {[1..n -> BeatAnnEntries] : n \in 1..MaxAnn} : Ascending(x)}}
\* beat_format is case insensitive
BeatFormats == {"beat", "dict", "Dict"}

InitBeat ==
    /\ call = Idle
    /\ module = NoModule
    /\ self_cfg = NoCfg
    /\ nested_class = "CFG"
    /\ reader = NoReader
    /\ disk = NoDisk
    /\ record \in BeatRecords
    /\ ann_file = NoFile

LoadBeatAnn ==
    /\ call.op = "idle"
    /\ \E sampfrom \in SampFroms, sampto \in SampTos, beat_format \in BeatFormats, keep_original \in BOOLEAN :
        call' = [op |-> "load_beat_ann",
                 args |-> [sampfrom |-> sampfrom, sampto |-> sampto,
                           beat_format |-> beat_format, keep_original |-> keep_original],
                 ret |-> load_beat_ann(record, sampfrom, sampto, beat_format, keep_original)]
    /\ UNCHANGED <<ltafVars, denseVars, cfgVars, baseVars>>

LoadRpeakIndices ==
    /\ call.op = "idle"
    /\ \E sampfrom \in SampFroms, sampto \in SampTos, keep_original \in BOOLEAN :
        call' = [op |-> "load_rpeak_indices",
                 args |-> [sampfrom |-> sampfrom, sampto |-> sampto,
                           use_manual |-> TRUE, keep_original |-> keep_original],
                 ret |-> load_rpeak_indices(record, sampfrom, sampto, keep_original)]
    /\ UNCHANGED <<ltafVars, denseVars, cfgVars, baseVars>>

NextBeat ==
    \/ LoadBeatAnn
    \/ LoadRpeakIndices

SpecBeat == InitBeat /\ [][NextBeat]_vars

\* some annotation of the record has symbol k and sample x
Annotated(rec, k, x) == \E j \in 1..Len(rec.ann) : rec.ann[j].symbol = k /\ rec.ann[j].sample = x

\* C12: load_beat_ann with keep_original=False returns, per beat type, the
\* indices of keep_original=True with sampfrom subtracted, same count and
\* order (the same indices when sampfrom is not given); the indices returned
\* are samples of annotations whose symbol is the beat type they are listed
\* under, one of A, N, Q, V.
C12_BeatShift ==
    (call.op = "load_beat_ann" /\ call.ret.ok) =>
        LET a == call.args
            orig == load_beat_ann(record, a.sampfrom, a.sampto, a.beat_format, TRUE)
            shift == IF a.keep_original \/ a.sampfrom = None THEN 0 ELSE a.sampfrom
            types == {beat_types[i] : i \in 1..Len(beat_types)}
        IN /\ orig.ok
           /\ Lower(a.beat_format) = "dict" =>
                /\ DOMAIN call.ret.ann = types
                /\ \A k \in types :
                     /\ Len(call.ret.ann[k]) = Len(orig.ann[k])
                     /\ \A i \in 1..Len(orig.ann[k]) :
                          /\ call.ret.ann[k][i] = orig.ann[k][i] - shift
                          /\ Annotated(record, k, orig.ann[k][i])
           /\ Lower(a.beat_format) = "beat" =>
                /\ Len(call.ret.beats) = Len(orig.beats)
                /\ \A i \in 1..Len(orig.beats) :
                     /\ call.ret.beats[i].symbol = orig.beats[i].symbol
                     /\ call.ret.beats[i].symbol \in types
                     /\ call.ret.beats[i].index = orig.beats[i].index - shift
                     /\ Annotated(record, orig.beats[i].symbol, orig.beats[i].index)

\* a record with a rhythm change at sample 1 and an N beat at sample 2, read
\* from sample 1 on with keep_original=False: the beat comes back at index 1
C12_Witness ==
    /\ call.op = "load_beat_ann"
    /\ call.ret.ok
    /\ call.args.beat_format = "dict"
    /\ ~call.args.keep_original
    /\ call.args.sampfrom = 1
    /\ record.ann = <<[sample |-> 1, aux_note |-> "(AFIB", symbol |-> "+"],
                      [sample |-> 2, aux_note |-> "", symbol |-> "N"]>>
    /\ call.ret.ann["N"] = <<1>>
    /\ call.ret.ann["V"] = <<>>

\* sorted(v)
RECURSIVE SortInts(_)
SortInts(v) ==
    IF v = <<>> THEN <<>>
    ELSE LET m == CHOOSE i \in 1..Len(v) : \A j \in 1..Len(v) : v[i] <= v[j]
         IN <<v[m]>> \o SortInts([i \in 1..(Len(v) - 1) |-> IF i < m THEN v[i] ELSE v[i + 1]])

\* C13: load_rpeak_indices (manual annotations) returns the sorted collection
\* of all indices load_beat_ann (dict format) returns over all beat types
\* for the same record, sampfrom, sampto and keep_original.
C13_RpeaksAreBeats ==
    (call.op = "load_rpeak_indices" /\ call.ret.ok) =>
        LET a == call.args
            beats == load_beat_ann(record, a.sampfrom, a.sampto, "dict", a.keep_original)
        IN beats.ok =>
             call.ret.rpeak_inds =
                 SortInts(beats.ann["A"] \o beats.ann["N"] \o beats.ann["Q"] \o beats.ann["V"])

\* a V beat before an N beat, both inside the window, shifted by sampfrom
C13_Witness ==
    /\ call.op = "load_rpeak_indices"
    /\ call.ret.ok
    /\ call.args.sampfrom = 1
    /\ ~call.args.keep_original
    /\ record.ann = <<[sample |-> 1, aux_note |-> "", symbol |-> "V"],
                      [sample |-> 2, aux_note |-> "", symbol |-> "N"]>>
    /\ call.ret.rpeak_inds = <<0, 1>>
    /\ load_beat_ann(record, call.args.sampfrom, call.args.sampto, "dict", FALSE).ok

\* C23: load_rhythm_ann and load_beat_ann called with integers sampfrom >= 0
\* and sampto >= 0, sampto <= sampfrom, raise AssertionError; nothing is
\* returned and load_rhythm_ann leaves the cache file as it was.
C23_SamptoGreater ==
    (/\ call.op \in {"load_rhythm_ann", "load_beat_ann"}
     /\ call.args.sampfrom # None
     /\ call.args.sampto # None
     /\ call.args.sampto <= call.args.sampfrom) =>
        /\ call.ret = AssertionError
        /\ call.op = "load_rhythm_ann" => ann_file = call.args.cached

(***************************************************************************)
(* Database readers: lead normalisation and load_data                      *)
(*   src/torch_ecg/databases/base.py                                       *)
(*                                                                         *)
(* A value of the argument `leads` is None, a str, an int or a sequence of *)
(* str and int; an attribute the reader does not have is Absent.           *)
(***************************************************************************)
MaxLeadArgs == 2     \* a sequence passed as `leads` holds 0..MaxLeadArgs elements

Absent == [t |-> "absent", s |-> "", i |-> 0, v |-> <<>>]
NoneLeads == [t |-> "none", s |-> "", i |-> 0, v |-> <<>>]
StrLead(s) == [t |-> "str", s |-> s, i |-> 0, v |-> <<>>]
IntLead(i) == [t |-> "int", s |-> "", i |-> i, v |-> <<>>]
SeqLeads(v) == [t |-> "seq", s |-> "", i |-> 0, v |-> v]

TypeError == [ok |-> FALSE, kind |-> "TypeError"]

Elements(seq) == {seq[i] : i \in 1..Len(seq)}

\* all_leads.index(ld), 0-based
IndexOf(all_leads, ld) == (CHOOSE i \in 1..Len(all_leads) : all_leads[i] = ld /\ \A j \in 1..(i - 1) : all_leads[j] # ld) - 1

\* all_leads[ld] of Python: negative indices count from the end; the empty
\* sequence stands for IndexError
PyIndex(all_leads, ld) ==
    IF 0 <= ld /\ ld < Len(all_leads) THEN <<all_leads[ld + 1]>>
    ELSE IF -Len(all_leads) <= ld /\ ld < 0 THEN <<all_leads[Len(all_leads) + ld + 1]>>
    ELSE <<>>

\* [ld if isinstance(ld, str) else all_leads[ld] for ld in leads]:
\* [ok, leads], ok false when an index raised
RECURSIVE LeadsOfSeq(_, _, _)
LeadsOfSeq(all_leads, v, i) ==
    IF i > Len(v) THEN [ok |-> TRUE, leads |-> <<>>]
    ELSE LET this == IF v[i].t = "str" THEN <<v[i].s>> ELSE PyIndex(all_leads, v[i].i)
             rest == LeadsOfSeq(all_leads, v, i + 1)
         IN IF this = <<>> \/ ~rest.ok THEN [ok |-> FALSE, leads |-> <<>>]
            ELSE [ok |-> TRUE, leads |-> this \o rest.leads]

\* _DataBase._normalize_leads(leads, all_leads, numeric); self_all_leads is
\* the reader's attribute all_leads, all_leads the argument (Absent for None)
_normalize_leads(self_all_leads, leads, all_leads, numeric) ==
    IF all_leads = Absent /\ self_all_leads = Absent THEN AssertionError
    ELSE LET _all_leads == IF all_leads = Absent THEN self_all_leads.v ELSE all_leads.v
             picked ==
                 IF leads.t = "none" \/ (leads.t = "str" /\ Lower(leads.s) = "all")
                 THEN [ok |-> TRUE, leads |-> _all_leads]
                 ELSE IF leads.t = "str" THEN [ok |-> TRUE, leads |-> <<leads.s>>]
                 ELSE IF leads.t = "int"
                 THEN IF Len(_all_leads) > leads.i /\ leads.i >= 0
                      THEN [ok |-> TRUE, leads |-> <<_all_leads[leads.i + 1]>>]
                      ELSE [ok |-> FALSE, leads |-> <<>>]
                 ELSE LeadsOfSeq(_all_leads, leads.v, 1)
         IN IF ~picked.ok THEN AssertionError
            ELSE IF ~(Elements(picked.leads) \subseteq Elements(_all_leads)) THEN AssertionError
            ELSE IF numeric
            THEN [ok |-> TRUE, kind |-> "indices",
                  indices |-> [i \in 1..Len(picked.leads) |-> IndexOf(_all_leads, picked.leads[i])]]
            ELSE [ok |-> TRUE, kind |-> "names", leads |-> picked.leads]

\* the assertions of load_data on data_format and units, for n_leads leads
\* selected; the units argument None is written "None"
LoadDataArgsOkMutant(n_leads, data_format, units) ==
    /\ Lower(data_format) \in {"channel_first", "lead_first", "channel_last", "lead_last", "flat", "plain"}
    /\ (units = "None" \/ Lower(units) \in {"mv", "uv", "μv", "muv"})
LoadDataArgsOk(n_leads, data_format, units) ==
    /\ Lower(data_format) \in {"channel_first", "lead_first", "channel_last", "lead_last", "flat", "plain"}
    /\ (n_leads > 1 => Lower(data_format) \in {"channel_first", "lead_first", "channel_last", "lead_last"})
    /\ (units = "None" \/ Lower(units) \in {"mv", "uv", "μv", "muv"})

\* PhysioNetDataBase.load_data: what is returned or raised.  The signal is
\* described by how it was read and converted: the channels read, digital or
\* physical, the factor applied, whether it was resampled and to which
\* frequency, and the layout of the array.  rec_fs is the record's sampling
\* frequency (wfdb_rec.fs), sig_name the lead names of its header.
load_data(self, sig_name, rec_fs, leads, data_format, units, fs, return_fs) ==
    LET all_leads == IF self.all_leads # Absent THEN self.all_leads ELSE SeqLeads(sig_name)
        n == _normalize_leads(self.all_leads, leads, all_leads, FALSE)
    IN IF ~n.ok THEN n
       ELSE IF ~LoadDataArgsOk(Len(n.leads), data_format, units) THEN AssertionError
       ELSE LET data_fs == IF fs # None THEN fs
                           ELSE IF self.has_fs THEN self.fs
                           ELSE rec_fs
                resample == data_fs # rec_fs
                data == [channels |-> [i \in 1..Len(n.leads) |-> IndexOf(all_leads.v, n.leads[i])],
                         physical |-> units # "None",
                         factor |-> IF units # "None" /\ Lower(units) \in {"μv", "uv", "muv"} THEN 1000 ELSE 1,
                         resampled |-> resample,
                         fs |-> data_fs,
                         layout |-> IF Lower(data_format) \in {"channel_first", "lead_first"} THEN "lead_first"
                                    ELSE IF Lower(data_format) \in {"flat", "plain"} THEN "flat"
                                    ELSE "lead_last"]
            IN IF resample /\ data_fs = None THEN TypeError
               ELSE [ok |-> TRUE, kind |-> "data", data |-> data,
                     data_fs |-> IF return_fs THEN <<data_fs>> ELSE <<>>]

(***************************************************************************)
(* SpecData: a reader of a two-lead database and one call of               *)
(* _normalize_leads or load_data.                                          *)
(***************************************************************************)
LeadNames == <<"ECG1", "ECG2">>
Freqs == {125, 250}
LeadStrs == {"ECG1", "ECG2", "ECG3"}
LeadInts == (-(Len(LeadNames) + 1))..(Len(LeadNames) + 1)
LeadElements == {StrLead(x) : x \in LeadStrs} \cup {IntLead(x) : x \in LeadInts}
LeadsArgs ==
    {NoneLeads, StrLead("all"), StrLead("ALL")} \cup LeadElements
        \cup {SeqLeads(v) : v \in UNION {[1..n -> LeadElements] : n \in 0..MaxLeadArgs}}
LoadLeadsArgs ==
    {NoneLeads, StrLead("all"), StrLead("ECG2"), StrLead("ECG3"), IntLead(0), IntLead(3),
     SeqLeads(<<IntLead(1)>>), SeqLeads(<<StrLead("ECG2"), StrLead("ECG1")>>)}
DataFormats ==
    {"channel_first", "lead_first", "channel_last", "lead_last", "flat", "plain",
     "Channel_First", "LEAD_LAST", "Flat", "PLAIN", "first", ""}
Units == {"None", "mV", "uV", "μV", "muV", "mv", "MV", "V", ""}
Readers ==
    {[class |-> "PhysioNetDataBase", all_leads |-> al, has_fs |-> TRUE, fs |-> f] :
        al \in {Absent, SeqLeads(LeadNames)}, f \in {None} \cup Freqs}

InitData ==
    /\ call = Idle
    /\ module = NoModule
    /\ self_cfg = NoCfg
    /\ nested_class = "CFG"
    /\ record = NoRecord
    /\ ann_file = NoFile
    /\ reader \in Readers
    /\ disk = NoDisk

NormalizeLeads ==
    /\ call.op = "idle"
    /\ \E leads \in LeadsArgs, all_leads \in {Absent, SeqLeads(LeadNames)}, numeric \in BOOLEAN :
        call' = [op |-> "_normalize_leads",
                 args |-> [leads |-> leads, all_leads |-> all_leads, numeric |-> numeric],
                 ret |-> _normalize_leads(reader.all_leads, leads, all_leads, numeric)]
    /\ UNCHANGED <<reader, disk, denseVars, cfgVars, ltafVars>>

LoadData ==
    /\ call.op = "idle"
    /\ \E leads \in LoadLeadsArgs, data_format \in DataFormats, units \in Units, fs \in {None} \cup Freqs, rec_fs \in Freqs, return_fs \in BOOLEAN :
        call' = [op |-> "load_data",
                 args |-> [leads |-> leads, data_format |-> data_format, units |-> units,
                           fs |-> fs, return_fs |-> return_fs, rec_fs |-> rec_fs],
                 ret |-> load_data(reader, LeadNames, rec_fs, leads, data_format, units, fs, return_fs)]
    /\ UNCHANGED <<reader, disk, denseVars, cfgVars, ltafVars>>

NextData ==
    \/ NormalizeLeads
    \/ LoadData

SpecData == InitData /\ [][NextData]_vars

\* a lead the documentation of _normalize_leads accepts: a name of all_leads
\* or a non-negative integer less than len(all_leads)
AcceptedLead(all_leads, e) ==
    \/ e.t = "str" /\ e.s \in Elements(all_leads)
    \/ e.t = "int" /\ 0 <= e.i /\ e.i < Len(all_leads)
LeadName(all_leads, e) == IF e.t = "str" THEN e.s ELSE all_leads[e.i + 1]

\* C14: _normalize_leads returns all leads for None or "all", the named or
\* indexed leads (their indices with numeric=True) when every lead passed is
\* a name of all_leads or an integer in 0..len(all_leads)-1, and raises
\* AssertionError for every other input.
C14_NormalizeLeads ==
    (/\ call.op = "_normalize_leads"
     /\ (call.args.all_leads # Absent \/ reader.all_leads # Absent)) =>
        LET leads == call.args.leads
            all_leads == IF call.args.all_leads # Absent THEN call.args.all_leads.v
                         ELSE reader.all_leads.v
            all == leads.t = "none" \/ (leads.t = "str" /\ Lower(leads.s) = "all")
            asseq == IF leads.t = "seq" THEN leads.v ELSE <<leads>>
            accepted == all \/ \A i \in 1..Len(asseq) : AcceptedLead(all_leads, asseq[i])
            names == IF all THEN all_leads
                     ELSE [i \in 1..Len(asseq) |-> LeadName(all_leads, asseq[i])]
        IN IF ~accepted THEN call.ret = AssertionError
           ELSE /\ call.ret.ok
                /\ IF call.args.numeric
                   THEN call.ret.indices = [i \in 1..Len(names) |-> IndexOf(all_leads, names[i])]
                   ELSE call.ret.leads = names

\* the lead selection of the last load_data call
SelectedLeads ==
    _normalize_leads(reader.all_leads, call.args.leads, SeqLeads(LeadNames), FALSE)

\* C15: load_data raises AssertionError exactly when data_format is none of
\* channel_first, lead_first, channel_last, lead_last, flat, plain in any
\* case, or is flat or plain with more than one lead selected, or units is
\* neither None nor one of mv, uv, μv, muv in any case; every other
\* combination passes validation.
C15_LoadDataValidation ==
    (call.op = "load_data" /\ SelectedLeads.ok) =>
        LET fmt == call.args.data_format
            units == call.args.units
            first_last == {"channel_first", "lead_first", "channel_last", "lead_last",
                           "Channel_First", "LEAD_LAST"}
            flat == {"flat", "plain", "Flat", "PLAIN"}
            good_units == {"None", "mV", "uV", "μV", "muV", "mv", "MV"}
            invalid == \/ fmt \notin first_last \cup flat
                       \/ fmt \in flat /\ Len(SelectedLeads.leads) > 1
                       \/ units \notin good_units
        IN (call.ret = AssertionError) <=> invalid

\* "Flat" with the two leads of the database selected is rejected
C15_Witness ==
    /\ call.op = "load_data"
    /\ SelectedLeads.ok
    /\ Len(SelectedLeads.leads) = 2
    /\ call.args.data_format = "Flat"
    /\ call.args.units = "μV"
    /\ call.ret = AssertionError

\* C16: load_data takes as output frequency the argument fs when it is not
\* None, else the reader's self.fs when that is available and not None, else
\* the record's frequency; the signal is resampled only when the chosen
\* frequency differs from the record's, and return_fs=True returns the
\* chosen frequency.
C16_SamplingFrequency ==
    (call.op = "load_data" /\ call.ret # AssertionError) =>
        LET chosen == IF call.args.fs # None THEN call.args.fs
                      ELSE IF reader.has_fs /\ reader.fs # None THEN reader.fs
                      ELSE call.args.rec_fs
        IN /\ call.ret.ok
           /\ call.ret.data.fs = chosen
           /\ call.ret.data.resampled = (chosen # call.args.rec_fs)
           /\ call.ret.data_fs = IF call.args.return_fs THEN <<chosen>> ELSE <<>>

(***************************************************************************)
(* Archive extraction                                                      *)
(*   src/torch_ecg/utils/download.py                                       *)
(*                                                                         *)
(* A path is a sequence of components below the root "/", the current      *)
(* directory being the root; a member name is [absolute, parts].  The      *)
(* string of a path is the sequence of its characters.                     *)
(***************************************************************************)
MaxMembers == 2      \* an archive holds 1..MaxMembers members
MaxDepth == 2        \* a member name has 1..MaxDepth components

Exception == [ok |-> FALSE, kind |-> "Exception"]
FilterError == [ok |-> FALSE, kind |-> "FilterError"]

\* the characters of a path component
Chars(part) ==
    CASE part = "d" -> <<"d">> [] part = "de" -> <<"d", "e">> [] part = "x" -> <<"x">>
      [] part = ".." -> <<".", ".">>

\* os.path.join(dst_dir, member.name), both as names
PathJoin(dst_dir, name) ==
    IF name.absolute THEN [absolute |-> TRUE, parts |-> name.parts]
    ELSE [absolute |-> dst_dir.absolute, parts |-> dst_dir.parts \o name.parts]

\* os.path.abspath: the path from the root with every ".." resolved
RECURSIVE NormParts(_, _)
NormParts(done, parts) ==
    IF parts = <<>> THEN done
    ELSE IF parts[1] = ".."
    THEN NormParts(IF done = <<>> THEN <<>> ELSE SubSeq(done, 1, Len(done) - 1), Tail(parts))
    ELSE NormParts(Append(done, parts[1]), Tail(parts))
AbsPath(name) == NormParts(<<>>, name.parts)

\* "/" + component for every component of a path
RECURSIVE JoinParts(_)
JoinParts(path) ==
    IF path = <<>> THEN <<>>
    ELSE <<"/">> \o Chars(path[1]) \o JoinParts(Tail(path))

\* the string of an absolute path; the root is "/"
PathString(path) ==
    IF path = <<>> THEN <<"/">> ELSE JoinParts(path)

\* os.path.commonprefix of two strings: the longest common leading string
CommonPrefix(a, b) ==
    LET n == CHOOSE k \in 0..Min(Len(a), Len(b)) :
                 /\ \A i \in 1..k : a[i] = b[i]
                 /\ (k < Min(Len(a), Len(b)) => a[k + 1] # b[k + 1])
    IN SubSeq(a, 1, n)

\* _is_within_directory(directory, target)
_is_within_directory(directory, target) ==
    LET abs_directory == PathString(AbsPath(directory))
        abs_target == PathString(AbsPath(target))
    IN CommonPrefix(abs_directory, abs_target) = abs_directory

\* the destination directory holds the path (or is it)
InsideDir(dir, path) == Len(path) >= Len(dir) /\ SubSeq(path, 1, Len(dir)) = dir

(***************************************************************************)
(* The file system.  disk is the set of its entries [path, kind] below the *)
(* root, kind "dir" or "file"; the root is a directory.  A name given to   *)
(* the operating system is [absolute, parts]; its ".." components are      *)
(* resolved against the directories that exist, not by their spelling.     *)
(***************************************************************************)
FileNotFoundError == [ok |-> FALSE, kind |-> "FileNotFoundError"]
NotADirectoryError == [ok |-> FALSE, kind |-> "NotADirectoryError"]
IsADirectoryError == [ok |-> FALSE, kind |-> "IsADirectoryError"]
FileExistsError == [ok |-> FALSE, kind |-> "FileExistsError"]

Dir(path) == [path |-> path, kind |-> "dir"]
File(path) == [path |-> path, kind |-> "file"]

\* "dir", "file" or "none"
KindOf(fs, path) ==
    IF path = <<>> \/ Dir(path) \in fs THEN "dir"
    ELSE IF File(path) \in fs THEN "file"
    ELSE "none"

\* the path a name leads to, component by component from position i on:
\* every component is looked up in a directory that must exist.  [err, path]
RECURSIVE Walk(_, _, _, _)
Walk(fs, cur, parts, i) ==
    IF i > Len(parts) THEN [err |-> ReturnsNone, path |-> cur]
    ELSE IF KindOf(fs, cur) = "none" THEN [err |-> FileNotFoundError, path |-> cur]
    ELSE IF KindOf(fs, cur) = "file" THEN [err |-> NotADirectoryError, path |-> cur]
    ELSE IF parts[i] = ".."
    THEN Walk(fs, IF cur = <<>> THEN <<>> ELSE SubSeq(cur, 1, Len(cur) - 1), parts, i + 1)
    ELSE Walk(fs, Append(cur, parts[i]), parts, i + 1)

\* os.path.exists, os.path.isdir
PathExists(fs, name) ==
    LET Found(w) == w.err.ok /\ KindOf(fs, w.path) # "none"
    IN Found(Walk(fs, <<>>, name.parts, 1))
PathIsDir(fs, name) ==
    LET FoundDir(w) == w.err.ok /\ KindOf(fs, w.path) = "dir"
    IN FoundDir(Walk(fs, <<>>, name.parts, 1))

\* os.mkdir(name): [err, disk]
Mkdir(fs, name) ==
    LET MkdirAt(w) ==
            IF ~w.err.ok THEN [err |-> w.err, disk |-> fs]
            ELSE IF name.parts[Len(name.parts)] = ".." \/ KindOf(fs, w.path) # "none"
            THEN [err |-> FileExistsError, disk |-> fs]
            ELSE [err |-> ReturnsNone, disk |-> fs \cup {Dir(w.path)}]
    IN IF name.parts = <<>> THEN [err |-> FileExistsError, disk |-> fs]
       ELSE MkdirAt(Walk(fs, <<>>, name.parts, 1))

\* open(name, "wb") and writing the file: [err, disk]
OpenWb(fs, name) ==
    LET OpenAt(w) ==
            IF ~w.err.ok THEN [err |-> w.err, disk |-> fs]
            ELSE IF name.parts[Len(name.parts)] = ".." \/ KindOf(fs, w.path) = "dir"
            THEN [err |-> IsADirectoryError, disk |-> fs]
            ELSE [err |-> ReturnsNone, disk |-> fs \cup {File(w.path)}]
    IN IF name.parts = <<>> THEN [err |-> IsADirectoryError, disk |-> fs]
       ELSE OpenAt(Walk(fs, <<>>, name.parts, 1))

\* os.path.dirname of a name without trailing "/"; the empty relative name
\* is the empty string
Dirname(name) ==
    [absolute |-> name.absolute,
     parts |-> IF name.parts = <<>> THEN <<>> ELSE SubSeq(name.parts, 1, Len(name.parts) - 1)]
NonEmptyName(name) == name.absolute \/ name.parts # <<>>

\* nothing done, nothing raised
Untouched(fs) == [err |-> ReturnsNone, disk |-> fs]

\* os.makedirs(name, exist_ok): the missing upper directories first, a
\* FileExistsError of theirs ignored, then the directory itself.  [err, disk]
RECURSIVE Makedirs(_, _, _)
Makedirs(fs, name, exist_ok) ==
    LET Made(made) ==
            IF ~made.err.ok /\ exist_ok /\ PathIsDir(made.disk, name)
            THEN [err |-> ReturnsNone, disk |-> made.disk]
            ELSE made
        Below(upper) ==
            IF ~upper.err.ok /\ upper.err # FileExistsError THEN upper
            ELSE Made(Mkdir(upper.disk, name))
    IN Below(IF NonEmptyName(Dirname(name)) /\ name.parts # <<>> /\ ~PathExists(fs, Dirname(name))
             THEN Makedirs(fs, Dirname(name), exist_ok)
             ELSE Untouched(fs))

\* `if upperdirs and not os.path.exists(upperdirs): os.makedirs(upperdirs)`
\* of tarfile and zipfile, for the place a member goes to.  [err, disk]
MakeUpperDirs(fs, targetpath) ==
    IF NonEmptyName(Dirname(targetpath)) /\ ~PathExists(fs, Dirname(targetpath))
    THEN Makedirs(fs, Dirname(targetpath), FALSE)
    ELSE Untouched(fs)

(***************************************************************************)
(* tarfile.  A member is [absolute, parts, kind]: its name and whether it  *)
(* is a regular file or a directory.  filter is the extraction filter the  *)
(* installed tarfile applies by default.                                   *)
(***************************************************************************)
\* the name of a member
NameOf(member) == [absolute |-> member.absolute, parts |-> member.parts]

\* the name of a member without its leading "/"
Stripped(member) == [absolute |-> FALSE, parts |-> member.parts]

\* TarFile.makedir: a directory member whose place is taken is skipped
TarMakedir(made) ==
    IF made.err = FileExistsError THEN [err |-> ReturnsNone, disk |-> made.disk] ELSE made

\* TarFile._extract_member(tarinfo, os.path.join(path, tarinfo.name)): [err, disk]
ExtractMember(fs, dst_dir, member, filter) ==
    LET targetpath == PathJoin(dst_dir, IF filter = "data" THEN Stripped(member) ELSE NameOf(member))
        Write(upper) ==
            IF ~upper.err.ok THEN upper
            ELSE IF member.kind = "file" THEN OpenWb(upper.disk, targetpath)
            ELSE TarMakedir(Mkdir(upper.disk, targetpath))
    IN Write(MakeUpperDirs(fs, targetpath))

\* tar.extractall(dst_dir) from member i on: the "data" filter strips a
\* leading "/" and raises at the first member that would land outside
\* dst_dir; the file system's errors end the extraction.  [ret, disk]
RECURSIVE ExtractAll(_, _, _, _, _)
ExtractAll(members, dst_dir, filter, i, fs) ==
    LET Rest(r) ==
            IF ~r.err.ok THEN [ret |-> r.err, disk |-> r.disk]
            ELSE ExtractAll(members, dst_dir, filter, i + 1, r.disk)
    IN IF i > Len(members) THEN [ret |-> ReturnsNone, disk |-> fs]
       ELSE IF filter = "data" /\ ~InsideDir(AbsPath(dst_dir), AbsPath(PathJoin(dst_dir, Stripped(members[i]))))
       THEN [ret |-> FilterError, disk |-> fs]
       ELSE Rest(ExtractMember(fs, dst_dir, members[i], filter))

\* _safe_tar_extract(tar, dst_dir) with members=None: [ret, disk]
_safe_tar_extract(members, dst_dir, filter, fs) ==
    IF \E i \in 1..Len(members) : ~_is_within_directory(dst_dir, PathJoin(dst_dir, NameOf(members[i])))
    THEN [ret |-> Exception, disk |-> fs]
    ELSE ExtractAll(members, dst_dir, filter, 1, fs)

(***************************************************************************)
(* zipfile and http_get.  A file name is [stem, suffix]; the component it  *)
(* is on the disk is FileName.  The temporary file http_get downloads to   *)
(* has a random name that is not in its directory: of the stems tmp, tmp1, *)
(* tmp2, ... the first one not there stands for it.                        *)
(***************************************************************************)
\* filename=None
NoFilename == [stem |-> "", suffix |-> ""]
BadArchive == [ok |-> FALSE, kind |-> "BadArchive"]
OSErrorNotEmpty == [ok |-> FALSE, kind |-> "OSError"]

FileName(name) == name.stem \o name.suffix

\* the name of a file in a directory
FileIn(dir, name) == PathJoin(dir, [absolute |-> FALSE, parts |-> <<FileName(name)>>])

\* tempfile.NamedTemporaryFile(dir=dir, suffix=suffix, delete=False).name,
\* the stems from the n-th on tried
RECURSIVE NamedTemporaryFile(_, _, _, _)
NamedTemporaryFile(fs, dir, suffix, n) ==
    LET Fresh(name) == IF PathExists(fs, name) THEN NamedTemporaryFile(fs, dir, suffix, n + 1) ELSE name
    IN Fresh(FileIn(dir, [stem |-> IF n = 0 THEN "tmp" ELSE "tmp" \o ToString(n), suffix |-> suffix]))

\* sub in s, of strings
Contains(s, sub) == \E i \in 1..(Len(s) - Len(sub) + 1) : SubSeq(s, i, i + Len(sub) - 1) = sub

\* _suffix(path), _stem(path), is_compressed_file(path)
_suffix(name) == name.suffix
_stem(name) == name.stem
is_compressed_file(name) == Contains(_suffix(name), ".zip") \/ Contains(_suffix(name), ".tar")

\* ZipFile._extract_member: the ".." components of the name and a leading
\* "/" are dropped, then the member is written below dst_dir.  [err, disk]
ZipExtractMember(fs, dst_dir, member) ==
    LET targetpath == PathJoin(dst_dir, [absolute |-> FALSE, parts |-> SelectSeq(member.parts, LAMBDA c : c # "..")])
        ZipWrite(upper) ==
            IF ~upper.err.ok THEN upper
            ELSE IF member.kind = "file" THEN OpenWb(upper.disk, targetpath)
            ELSE IF PathIsDir(upper.disk, targetpath) THEN upper
            ELSE Mkdir(upper.disk, targetpath)
    IN ZipWrite(MakeUpperDirs(fs, targetpath))

\* _unzip_file(path_to_zip_file, dst_dir): ZipFile.extractall from member i on
RECURSIVE _unzip_file(_, _, _, _)
_unzip_file(members, dst_dir, i, fs) ==
    LET ZipRest(r) ==
            IF ~r.err.ok THEN [ret |-> r.err, disk |-> r.disk]
            ELSE _unzip_file(members, dst_dir, i + 1, r.disk)
    IN IF i > Len(members) THEN [ret |-> ReturnsNone, disk |-> fs]
       ELSE ZipRest(ZipExtractMember(fs, dst_dir, members[i]))

\* _untar_file(path_to_tar_file, dst_dir)
_untar_file(members, dst_dir, filter, fs) == _safe_tar_extract(members, dst_dir, filter, fs)

\* os.listdir(path) of a directory: the names in it
Listdir(fs, path) == {e.path[Len(path) + 1] : e \in {f \in fs : InsideDir(path, f.path) /\ Len(f.path) = Len(path) + 1}}

\* the entries of the tree at path, moved to the path to
MoveTree(fs, from, to) ==
    {IF InsideDir(from, e.path)
     THEN [path |-> to \o SubSeq(e.path, Len(from) + 1, Len(e.path)), kind |-> e.kind]
     ELSE e : e \in fs}

\* shutil.rmtree(path)
Rmtree(fs, path) == {e \in fs : ~InsideDir(path, e.path)}

\* dst_dir + "_tmp"
TmpFolder(dst) == SubSeq(dst, 1, Len(dst) - 1) \o <<"d_tmp">>

\* the lines of http_get after the extraction: a folder of the archive's own
\* name inside dst_dir takes the place of dst_dir.  [ret, disk]
ReplaceByFolder(fs, dst_dir, _folder) ==
    LET ReplaceAt(w) ==
            IF ~w.err.ok THEN [ret |-> w.err, disk |-> fs]
            ELSE IF KindOf(fs, w.path) = "none" THEN [ret |-> FileNotFoundError, disk |-> fs]
            ELSE IF KindOf(fs, w.path) = "file" THEN [ret |-> NotADirectoryError, disk |-> fs]
            ELSE IF _folder \notin Listdir(fs, w.path) THEN [ret |-> ReturnsNone, disk |-> fs]
            ELSE IF KindOf(fs, TmpFolder(w.path)) = "file" THEN [ret |-> NotADirectoryError, disk |-> fs]
            ELSE IF Listdir(fs, TmpFolder(w.path)) # {} THEN [ret |-> OSErrorNotEmpty, disk |-> fs]
            ELSE [ret |-> ReturnsNone,
                  disk |-> Rmtree(MoveTree(MoveTree(fs \ {Dir(TmpFolder(w.path))}, w.path, TmpFolder(w.path)),
                                           Append(TmpFolder(w.path), _folder), w.path),
                                  TmpFolder(w.path))]
    IN ReplaceAt(Walk(fs, <<>>, dst_dir.parts, 1))

\* os.remove(downloaded_file.name) when nothing was raised before
RemoveFile(r, downloaded_file) ==
    IF r.ret.ok THEN [ret |-> r.ret, disk |-> r.disk \ {File(AbsPath(downloaded_file))}] ELSE r

\* the lines of http_get for extract=True, the body downloaded.  [ret, disk]
ExtractDownloaded(fs, dst_dir, df_suffix, _folder, body, filter, downloaded_file) ==
    LET Replace(extracted) ==
            IF ~extracted.ret.ok THEN extracted
            ELSE RemoveFile(ReplaceByFolder(extracted.disk, dst_dir, _folder), downloaded_file)
    IN IF ~Contains(df_suffix, ".zip") /\ ~Contains(df_suffix, ".tar")
       THEN [ret |-> Exception, disk |-> fs \ {File(AbsPath(downloaded_file))}]
       ELSE IF body.kind # "archive" THEN [ret |-> BadArchive, disk |-> fs]
       ELSE Replace(IF Contains(df_suffix, ".zip") THEN _unzip_file(body.members, dst_dir, 1, fs)
                    ELSE _untar_file(body.members, dst_dir, filter, fs))

\* the lines of http_get for extract=False, the body downloaded.  [ret, disk]
CopyDownloaded(fs, dst_dir, named, downloaded_file) ==
    LET Copied(copied) == [ret |-> copied.err, disk |-> copied.disk]
        Copy(made) ==
            IF ~made.err.ok THEN [ret |-> made.err, disk |-> made.disk]
            ELSE RemoveFile(Copied(OpenWb(made.disk, FileIn(dst_dir, named))), downloaded_file)
    IN Copy(Makedirs(fs, dst_dir, TRUE))

\* http_get(url, dst_dir, extract=extract, filename=filename), the server
\* answering with the status and the body; filter is tarfile's.  [ret, disk]
http_get(url, dst_dir, extract, filename, status, body, filter, fs) ==
    LET named == IF filename = NoFilename THEN url ELSE filename
        Downloaded(created, downloaded_file) ==
            IF ~created.err.ok THEN [ret |-> created.err, disk |-> fs]
            ELSE IF status \in {403, 404} THEN [ret |-> Exception, disk |-> created.disk]
            ELSE IF extract /\ (is_compressed_file(url) \/ (filename # NoFilename /\ is_compressed_file(filename)))
            THEN ExtractDownloaded(created.disk, dst_dir, _suffix(named), _stem(named), body, filter, downloaded_file)
            ELSE CopyDownloaded(created.disk, dst_dir, named, downloaded_file)
        Fetch(downloaded_file) == Downloaded(OpenWb(fs, downloaded_file), downloaded_file)
    IN IF filename # NoFilename /\ PathExists(fs, FileIn(dst_dir, filename))
       THEN [ret |-> AssertionError, disk |-> fs]
       ELSE Fetch(NamedTemporaryFile(fs, Dirname(dst_dir), _suffix(named), 0))

(***************************************************************************)
(* SpecTar: one archive extracted to the directory /d, which exists or     *)
(* not, by _safe_tar_extract or by http_get; the disk is otherwise empty,  *)
(* or holds the temporary file that a call of http_get answered with 404   *)
(* left behind.                                                            *)
(***************************************************************************)
Parts == {"..", "de", "x"}
MemberNames ==
    {[absolute |-> a, parts |-> p] :
        a \in BOOLEAN, p \in UNION {[1..n -> Parts \cup {"d"}] : n \in 1..MaxDepth}}
Members == {[absolute |-> n.absolute, parts |-> n.parts, kind |-> k] : n \in MemberNames, k \in {"file", "dir"}}
Archives == UNION {[1..n -> Members] : n \in 1..MaxMembers}
DstDirs == {[absolute |-> TRUE, parts |-> <<"d">>], [absolute |-> FALSE, parts |-> <<"d">>]}
ExtractionFilters == {"fully_trusted", "data"}
Urls == {[stem |-> "x", suffix |-> s] : s \in {".zip", ".tar.gz", ".dat"}}
Filenames == {NoFilename} \cup {[stem |-> "de", suffix |-> s] : s \in {".zip", ".dat"}}
Statuses == {200, 404}
NoBody == [kind |-> "none"]
NotAnArchive == [kind |-> "bytes"]
\* what the server sends: an archive where one is extracted, or other bytes
Bodies(url, extract, filename, status) ==
    IF status # 200 THEN {NoBody}
    ELSE IF extract /\ (is_compressed_file(url) \/ (filename # NoFilename /\ is_compressed_file(filename)))
            /\ is_compressed_file(IF filename = NoFilename THEN url ELSE filename)
    THEN {NotAnArchive} \cup {[kind |-> "archive", members |-> a] : a \in Archives}
    ELSE {NotAnArchive}
\* the filter of the tarfile that extracts the body, if one does
FiltersOf(url, filename, body) ==
    IF body.kind = "archive" /\ ~Contains(_suffix(IF filename = NoFilename THEN url ELSE filename), ".zip")
    THEN ExtractionFilters ELSE {"fully_trusted"}

InitTar ==
    /\ call = Idle
    /\ module = NoModule
    /\ self_cfg = NoCfg
    /\ nested_class = "CFG"
    /\ record = NoRecord
    /\ ann_file = NoFile
    /\ reader = NoReader
    /\ disk \in {NoDisk, {Dir(<<"d">>)}, {Dir(<<"d">>), File(<<"tmp.zip">>)}}

SafeTarExtract ==
    /\ call.op = "idle"
    /\ \E members \in Archives, dst_dir \in DstDirs, filter \in ExtractionFilters :
        LET r == _safe_tar_extract(members, dst_dir, filter, disk)
        IN /\ call' = [op |-> "_safe_tar_extract",
                       args |-> [members |-> members, dst_dir |-> dst_dir, filter |-> filter,
                                 disk |-> disk],
                       ret |-> r.ret]
           /\ disk' = r.disk
    /\ UNCHANGED <<reader, denseVars, cfgVars, ltafVars>>

HttpGet ==
    /\ call.op = "idle"
    /\ \E url \in Urls, dst_dir \in DstDirs, extract \in BOOLEAN, filename \in Filenames, status \in Statuses :
        \E body \in Bodies(url, extract, filename, status) :
            \E filter \in FiltersOf(url, filename, body) :
                LET r == http_get(url, dst_dir, extract, filename, status, body, filter, disk)
                IN /\ call' = [op |-> "http_get",
                               args |-> [url |-> url, dst_dir |-> dst_dir, extract |-> extract,
                                         filename |-> filename, status |-> status, body |-> body,
                                         filter |-> filter, disk |-> disk],
                               ret |-> r.ret]
                   /\ disk' = r.disk
    /\ UNCHANGED <<reader, denseVars, cfgVars, ltafVars>>

NextTar ==
    \/ SafeTarExtract
    \/ HttpGet

SpecTar == InitTar /\ [][NextTar]_vars

\* C17: when the normalised absolute path of any member (dst_dir joined with
\* its name) lies outside dst_dir, an exception is raised before any member
\* is extracted; whenever members are extracted, each lands inside dst_dir.
C17_NoPathTraversal ==
    (call.op = "_safe_tar_extract") =>
        LET dst == AbsPath(call.args.dst_dir)
            members == call.args.members
            Outside(i) == ~InsideDir(dst, AbsPath(PathJoin(call.args.dst_dir, NameOf(members[i]))))
        IN /\ (\E i \in 1..Len(members) : Outside(i)) => (~call.ret.ok /\ disk = call.args.disk)
           /\ \A e \in disk \ call.args.disk : InsideDir(dst, e.path)

(***************************************************************************)
(* NSRRDataBase.safe_edf_file_operation                                    *)
(*   src/torch_ecg/databases/base.py                                       *)
(*                                                                         *)
(* An EdfReader is named by the number of the call that constructed it.    *)
(* reader.file_opened is the reader the attribute refers to (None for      *)
(* none), reader.open the set of readers not closed yet, reader.calls the  *)
(* number of calls made.                                                   *)
(***************************************************************************)
MaxCalls == 6        \* calls of safe_edf_file_operation in a behaviour

OSError == [ok |-> FALSE, kind |-> "OSError"]

EdfFiles == {"a.edf", "b.edf"}
EdfPaths == EdfFiles \cup {"missing.edf"}
EdfOperations == {"open", "close", "reopen"}

\* file_opened._close(): the reader is closed if it was not already
Close(open, edf_reader) == open \ {edf_reader}

\* NSRRDataBase.safe_edf_file_operation(operation, full_file_path):
\* [ret, reader]; EdfReader(path) raises for a file that is not there
safe_edf_file_operation(self, operation, full_file_path) ==
    LET this == self.calls + 1
        counted == [self EXCEPT !.calls = this]
    IN IF operation = "open"
       THEN LET closed == IF self.file_opened # None
                          THEN [counted EXCEPT !.open = Close(self.open, self.file_opened)]
                          ELSE counted
            IN IF full_file_path \notin EdfFiles
               THEN [ret |-> OSError, reader |-> closed]
               ELSE [ret |-> ReturnsNone,
                     reader |-> [closed EXCEPT !.file_opened = this, !.open = closed.open \cup {this}]]
       ELSE IF operation = "close"
       THEN IF self.file_opened # None
            THEN [ret |-> ReturnsNone,
                  reader |-> [counted EXCEPT !.open = Close(self.open, self.file_opened),
                                              !.file_opened = None]]
            ELSE [ret |-> ReturnsNone, reader |-> counted]
       ELSE [ret |-> ValueError, reader |-> counted]

(***************************************************************************)
(* SpecEdf: a fresh NSRRDataBase and up to MaxCalls calls.                 *)
(***************************************************************************)
InitEdf ==
    /\ call = Idle
    /\ module = NoModule
    /\ self_cfg = NoCfg
    /\ nested_class = "CFG"
    /\ record = NoRecord
    /\ ann_file = NoFile
    /\ reader = [class |-> "NSRRDataBase", file_opened |-> None, open |-> {}, calls |-> 0]
    /\ disk = NoDisk

SafeEdfFileOperation ==
    /\ reader.calls < MaxCalls
    /\ \E operation \in EdfOperations, full_file_path \in EdfPaths :
        LET r == safe_edf_file_operation(reader, operation, full_file_path)
        IN /\ call' = [op |-> "safe_edf_file_operation",
                       args |-> [operation |-> operation, full_file_path |-> full_file_path],
                       ret |-> r.ret]
           /\ reader' = r.reader
    /\ UNCHANGED <<disk, denseVars, cfgVars, ltafVars>>

NextEdf ==
    \/ SafeEdfFileOperation

SpecEdf == InitEdf /\ [][NextEdf]_vars

\* C18: after any sequence of safe_edf_file_operation calls at most one EDF
\* reader is open, and file_opened is None with no reader open or refers to
\* the one reader that is open.
C18_OneReaderOpen ==
    (reader.class = "NSRRDataBase") =>
        /\ Cardinality(reader.open) <= 1
        /\ IF reader.file_opened = None THEN reader.open = {}
           ELSE reader.open = {reader.file_opened}

(***************************************************************************)
(* PhysioNetDataBase.version and the methods that read it                  *)
(*   src/torch_ecg/databases/base.py                                       *)
(*                                                                         *)
(* A version string is the sequence of its characters, the empty string    *)
(* the empty sequence; None is NoVersion, which is no string.              *)
(* reader._version is the stored version, reader.lookups counts the calls  *)
(* of wfdb.io.record.get_version, reader.reads the calls on the reader.    *)
(* reader.listed tells whether df_all_db_info has the database.            *)
(* reader._all_records is [listed, names]: None when not listed, else the  *)
(* names of the records, taken as a set.                                   *)
(***************************************************************************)
MaxReads == 3        \* calls on the reader in a behaviour

NoVersion == <<"None">>
DefaultVersion == <<"1", ".", "0", ".", "0">>
Digits == {"0", "1", "2", "3", "4", "5", "6", "7", "8", "9"}

\* v is of the form of the pattern "\\d+\\.\\d+\\.\\d+", matched in full
PHYSIONET_DB_VERSION_PATTERN(v) ==
    \E i, j \in 1..Len(v) :
        /\ 1 < i /\ i + 1 < j /\ j < Len(v)
        /\ v[i] = "." /\ v[j] = "."
        /\ \A k \in (1..Len(v)) \ {i, j} : v[k] \in Digits

\* what wfdb.io.record.get_version answers: the string it reads off the
\* database's page at PhysioNet, which is a version as "2.1.0" or any other
\* string, as "1.0" or the empty string; or the lookup raises
Raises == <<"raises">>
PhysioNetVersions == {<<"2", ".", "1", ".", "0">>, <<"1", ".", "0">>, <<>>}
Lookups == PhysioNetVersions \cup {Raises}

\* the property version: [ret, reader], with the answer the lookup would give
versionMutant(self, lookup) ==
    IF self._version # NoVersion THEN [ret |-> self._version, reader |-> self]
    ELSE LET found == IF lookup = Raises THEN DefaultVersion ELSE lookup
         IN [ret |-> found, reader |-> [self EXCEPT !.lookups = @ + 1]]
version(self, lookup) ==
    IF self._version # NoVersion THEN [ret |-> self._version, reader |-> self]
    ELSE LET found == IF lookup = Raises THEN DefaultVersion ELSE lookup
         IN [ret |-> found, reader |-> [self EXCEPT !._version = found, !.lookups = @ + 1]]

\* posixpath.join(base, db_name, version, file_name): an absolute file_name
\* drops what stands before it
posixpath_join(base, db_name, ver, file_name) ==
    IF file_name.absolute
    THEN [ok |-> TRUE, kind |-> "url", base |-> "", db_name |-> "", version |-> NoVersion, file_name |-> file_name.parts]
    ELSE [ok |-> TRUE, kind |-> "url", base |-> base, db_name |-> db_name, version |-> ver, file_name |-> file_name.parts]

\* no file name after the version
NoFileName == [absolute |-> FALSE, parts |-> <<>>]

\* get_file_download_url(file_name): [ret, reader]
get_file_download_url(self, file_name, lookup) ==
    LET v == version(self, lookup)
    IN [ret |-> posixpath_join("PN_INDEX_URL", self.db_name, v.ret, file_name), reader |-> v.reader]

\* the properties webpage and url: [ret, reader]
webpage(self, lookup) ==
    LET v == version(self, lookup)
    IN [ret |-> posixpath_join("PN_CONTENT_URL", self.db_name, v.ret, NoFileName), reader |-> v.reader]
url(self, lookup) ==
    LET v == version(self, lookup)
    IN [ret |-> posixpath_join("PN_INDEX_URL", self.db_name, v.ret, NoFileName), reader |-> v.reader]

\* the None a property returns, the error of requests.head
NoUrl == [ok |-> TRUE, kind |-> "None"]
ConnectionError == [ok |-> FALSE, kind |-> "ConnectionError"]

\* the url of the compressed database
ZipUrl(db_name, ver) ==
    [ok |-> TRUE, kind |-> "url", base |-> "static/published-projects", db_name |-> db_name,
     version |-> ver, file_name |-> <<"db_description", ".zip">>]

\* the property url_, requests.head answering with the content type head
\* ("zip", "other") or raising ("raises"): [ret, reader]
url_(self, head, lookup) ==
    LET Asked(v) ==
            IF head = "raises" THEN [ret |-> ConnectionError, reader |-> v.reader]
            ELSE IF head = "zip"
            THEN [ret |-> ZipUrl(self.db_name, v.ret),
                  reader |-> [v.reader EXCEPT !._url_compressed = ZipUrl(self.db_name, v.ret)]]
            ELSE [ret |-> v.reader._url_compressed, reader |-> v.reader]
    IN IF self._url_compressed # NoUrl THEN [ret |-> self._url_compressed, reader |-> self]
       ELSE IF ~self.listed THEN [ret |-> NoUrl, reader |-> self]
       ELSE Asked(version(self, lookup))

\* the end of the digits that stand in v from position i on
RECURSIVE DigitsEnd(_, _)
DigitsEnd(v, i) == IF i <= Len(v) /\ v[i] \in Digits THEN DigitsEnd(v, i + 1) ELSE i - 1

\* the end of the match of the pattern "\\d+\\.\\d+\\.\\d+" that starts at
\* position i of v, 0 when none starts there
MatchEnd(v, i) ==
    LET Third(e2) == IF DigitsEnd(v, e2 + 2) >= e2 + 2 THEN DigitsEnd(v, e2 + 2) ELSE 0
        Second(e1) ==
            IF DigitsEnd(v, e1 + 2) >= e1 + 2 /\ DigitsEnd(v, e1 + 2) < Len(v) /\ v[DigitsEnd(v, e1 + 2) + 1] = "."
            THEN Third(DigitsEnd(v, e1 + 2))
            ELSE 0
    IN IF DigitsEnd(v, i) >= i /\ DigitsEnd(v, i) < Len(v) /\ v[DigitsEnd(v, i) + 1] = "."
       THEN Second(DigitsEnd(v, i))
       ELSE 0

\* re.sub(ignore_pattern, "", v) from position i on: the matches are cut out
\* from left to right
RECURSIVE re_sub(_, _)
re_sub(v, i) ==
    IF i > Len(v) THEN <<>>
    ELSE IF MatchEnd(v, i) > 0 THEN re_sub(v, MatchEnd(v, i) + 1)
    ELSE <<v[i]>> \o re_sub(v, i + 1)

\* "".join(Path(name).suffixes) for a name that neither starts nor ends with
\* a dot: the name from its first dot on, as a string
RECURSIVE Suffixes(_, _)
Suffixes(v, dotted) ==
    IF v = <<>> THEN ""
    ELSE IF dotted \/ Head(v) = "." THEN Head(v) \o Suffixes(Tail(v), TRUE)
    ELSE Suffixes(Tail(v), FALSE)

\* the name http_get reads off the url of the compressed database,
\* "<description>-<version>.zip" with no dot in the description: its suffix
\* is _suffix(url), and what stands before the suffix is written x
UrlName(zip) ==
    [stem |-> "x", suffix |-> Suffixes(<<"-">> \o re_sub(zip.version, 1), FALSE) \o zip.file_name[2]]

\* wfdb.dl_database(db_name, db_dir): the files of the database, one data
\* file here, are written to db_dir, or the download raises.  [ret, disk]
dl_database(db_dir, status, fs) ==
    LET Wrote(wrote) == [ret |-> wrote.err, disk |-> wrote.disk]
        Write(made) ==
            IF ~made.err.ok THEN [ret |-> made.err, disk |-> made.disk]
            ELSE Wrote(OpenWb(made.disk, PathJoin(db_dir, [absolute |-> FALSE, parts |-> <<"de.dat">>])))
    IN IF status # 200 THEN [ret |-> ConnectionError, disk |-> fs]
       ELSE Write(Makedirs(fs, db_dir, TRUE))

\* self._all_records = None, and a list of names
NoRecords == [listed |-> FALSE, names |-> {}]
RecordList(names) == [listed |-> TRUE, names |-> names]

\* _ls_rec(): no file RECORDS is in db_dir, and the records are the data
\* files (data_ext "dat") found at any depth below db_dir, named without
\* directory and extension
DataFiles == {[stem |-> st, suffix |-> ".dat"] : st \in {"x", "de"}}
_ls_rec(self, fs) ==
    [self EXCEPT !._all_records =
        RecordList({<<n.stem>> : n \in {m \in DataFiles :
            \E f \in fs : /\ f.kind = "file"
                          /\ InsideDir(AbsPath(self.db_dir), f.path)
                          /\ f.path[Len(f.path)] = FileName(m)}})]

\* the property all_records: [ret, reader]
all_records(self, fs) ==
    LET Listed(rdr) == [ret |-> rdr._all_records, reader |-> rdr]
    IN Listed(IF self._all_records = NoRecords THEN _ls_rec(self, fs) ELSE self)

\* LTAFDB(db_dir), db_dir being a directory: the reader the constructor
\* leaves, the records of db_dir listed.  listed tells whether the list of
\* databases that get_physionet_dbs gives has "ltafdb"
LTAFDB(db_dir, listed, fs) ==
    _ls_rec([class |-> "LTAFDB", db_name |-> "ltafdb", db_dir |-> db_dir, listed |-> listed,
             _version |-> NoVersion, _url_compressed |-> NoUrl, _all_records |-> NoRecords,
             lookups |-> 0, reads |-> 0], fs)

\* download(compressed): [ret, reader, disk]
download(self, compressed, head, lookup, status, body, fs) ==
    LET Listed(rdr, got) ==
            IF ~got.ret.ok THEN [ret |-> got.ret, reader |-> rdr, disk |-> got.disk]
            ELSE [ret |-> ReturnsNone, reader |-> _ls_rec(rdr, got.disk), disk |-> got.disk]
        Get(second) ==
            Listed(second.reader,
                   http_get(UrlName(second.ret), self.db_dir, TRUE, NoFilename, status, body, "fully_trusted", fs))
        Decide(first) ==
            IF ~first.ret.ok THEN [ret |-> first.ret, reader |-> first.reader, disk |-> fs]
            ELSE IF compressed /\ first.ret # NoUrl THEN Get(url_(first.reader, head, lookup))
            ELSE Listed(first.reader, dl_database(self.db_dir, status, fs))
    IN Decide(IF compressed THEN url_(self, head, lookup) ELSE [ret |-> NoUrl, reader |-> self])

(***************************************************************************)
(* SpecVersion: a reader LTAFDB("/d") as its constructor leaves it, /d     *)
(* made by the constructor or there before with a data file in it; up to   *)
(* MaxReads calls are made on it, PhysioNet answering anew each time.      *)
(***************************************************************************)
FileNameArgs == {[absolute |-> FALSE, parts |-> <<"data", "001a.dat">>], [absolute |-> TRUE, parts |-> <<"001a.dat">>]}
HeadAnswers == {"zip", "other", "raises"}
\* the compressed database: its files in a folder of its own name, or not
DatabaseArchives ==
    {<<[absolute |-> FALSE, parts |-> <<"x">>, kind |-> "dir"], [absolute |-> FALSE, parts |-> <<"x", "de.dat">>, kind |-> "file"]>>,
     <<[absolute |-> FALSE, parts |-> <<"de.dat">>, kind |-> "file"], [absolute |-> FALSE, parts |-> <<"de">>, kind |-> "file"]>>}
\* what PhysioNet sends when the database is downloaded
DownloadAnswers == {[status |-> 404, body |-> NoBody], [status |-> 200, body |-> NotAnArchive]} \cup {[status |-> 200, body |-> [kind |-> "archive", members |-> a]] : a \in DatabaseArchives}

InitVersion ==
    /\ call = Idle
    /\ module = NoModule
    /\ self_cfg = NoCfg
    /\ nested_class = "CFG"
    /\ record = NoRecord
    /\ ann_file = NoFile
    /\ disk \in {{Dir(<<"d">>)}, {Dir(<<"d">>), File(<<"d", "x.dat">>)}}
    /\ reader \in {LTAFDB([absolute |-> TRUE, parts |-> <<"d">>], l, disk) : l \in BOOLEAN}

ReadVersion ==
    /\ reader.reads < MaxReads
    /\ \E lookup \in Lookups :
        LET r == version(reader, lookup)
        IN /\ call' = [op |-> "version",
                       args |-> [lookup |-> lookup, stored |-> reader._version,
                                 lookups |-> reader.lookups],
                       ret |-> r.ret]
           /\ reader' = [r.reader EXCEPT !.reads = @ + 1]
    /\ UNCHANGED <<disk, denseVars, cfgVars, ltafVars>>

GetFileDownloadUrl ==
    /\ reader.reads < MaxReads
    /\ \E file_name \in FileNameArgs, lookup \in Lookups :
        LET r == get_file_download_url(reader, file_name, lookup)
        IN /\ call' = [op |-> "get_file_download_url",
                       args |-> [file_name |-> file_name, lookup |-> lookup, stored |-> reader._version],
                       ret |-> r.ret]
           /\ reader' = [r.reader EXCEPT !.reads = @ + 1]
    /\ UNCHANGED <<disk, denseVars, cfgVars, ltafVars>>

Webpage ==
    /\ reader.reads < MaxReads
    /\ \E lookup \in Lookups :
        LET r == webpage(reader, lookup)
        IN /\ call' = [op |-> "webpage", args |-> [lookup |-> lookup, stored |-> reader._version],
                       ret |-> r.ret]
           /\ reader' = [r.reader EXCEPT !.reads = @ + 1]
    /\ UNCHANGED <<disk, denseVars, cfgVars, ltafVars>>

Url ==
    /\ reader.reads < MaxReads
    /\ \E lookup \in Lookups :
        LET r == url(reader, lookup)
        IN /\ call' = [op |-> "url", args |-> [lookup |-> lookup, stored |-> reader._version],
                       ret |-> r.ret]
           /\ reader' = [r.reader EXCEPT !.reads = @ + 1]
    /\ UNCHANGED <<disk, denseVars, cfgVars, ltafVars>>

UrlCompressed ==
    /\ reader.reads < MaxReads
    /\ \E head \in HeadAnswers, lookup \in Lookups :
        LET r == url_(reader, head, lookup)
        IN /\ call' = [op |-> "url_",
                       args |-> [head |-> head, lookup |-> lookup, stored |-> reader._version],
                       ret |-> r.ret]
           /\ reader' = [r.reader EXCEPT !.reads = @ + 1]
    /\ UNCHANGED <<disk, denseVars, cfgVars, ltafVars>>

Download ==
    /\ reader.reads < MaxReads
    /\ \E compressed \in BOOLEAN, head \in HeadAnswers, lookup \in Lookups, answer \in DownloadAnswers :
        LET r == download(reader, compressed, head, lookup, answer.status, answer.body, disk)
        IN /\ call' = [op |-> "download",
                       args |-> [compressed |-> compressed, head |-> head, lookup |-> lookup,
                                 answer |-> answer, stored |-> reader._version],
                       ret |-> r.ret]
           /\ reader' = [r.reader EXCEPT !.reads = @ + 1]
           /\ disk' = r.disk
    /\ UNCHANGED <<denseVars, cfgVars, ltafVars>>

AllRecords ==
    /\ reader.reads < MaxReads
    /\ LET r == all_records(reader, disk)
       IN /\ call' = [op |-> "all_records", args |-> [stored |-> reader._version], ret |-> r.ret]
          /\ reader' = [r.reader EXCEPT !.reads = @ + 1]
    /\ UNCHANGED <<disk, denseVars, cfgVars, ltafVars>>

LsRec ==
    /\ reader.reads < MaxReads
    /\ call' = [op |-> "_ls_rec", args |-> [stored |-> reader._version], ret |-> ReturnsNone]
    /\ reader' = [_ls_rec(reader, disk) EXCEPT !.reads = @ + 1]
    /\ UNCHANGED <<disk, denseVars, cfgVars, ltafVars>>

NextVersion ==
    \/ ReadVersion
    \/ AllRecords
    \/ LsRec
    \/ GetFileDownloadUrl
    \/ Webpage
    \/ Url
    \/ UrlCompressed
    \/ Download

SpecVersion == InitVersion /\ [][NextVersion]_vars

\* C19 as stated: version always yields a string of the form
\* digits.digits.digits, the version obtained from PhysioNet or "1.0.0" when
\* the lookup raises; once determined it is stored, and every later read
\* returns the stored value without a new lookup.
C19_VersionStored ==
    (call.op = "version") =>
        /\ PHYSIONET_DB_VERSION_PATTERN(call.ret)
        /\ reader._version = call.ret
        /\ IF call.args.stored = NoVersion
           THEN /\ call.ret = IF call.args.lookup = Raises THEN DefaultVersion ELSE call.args.lookup
                /\ reader.lookups = call.args.lookups + 1
           ELSE /\ call.ret = call.args.stored
                /\ reader.lookups = call.args.lookups
        /\ reader.lookups <= 1

\* C19, amended: version yields the string obtained from PhysioNet as it
\* is, or "1.0.0" when the lookup raises, so it is of the form
\* digits.digits.digits if the string obtained is; once determined it is
\* stored, and every later read returns the stored value without a new
\* lookup, whatever PhysioNet would answer then.
C19_VersionRelayed ==
    (call.op = "version") =>
        /\ reader._version = call.ret
        /\ call.ret # NoVersion
        /\ IF call.args.stored = NoVersion
           THEN /\ call.ret = IF call.args.lookup = Raises THEN DefaultVersion ELSE call.args.lookup
                /\ (call.args.lookup = Raises \/ PHYSIONET_DB_VERSION_PATTERN(call.args.lookup))
                       => PHYSIONET_DB_VERSION_PATTERN(call.ret)
                /\ reader.lookups = call.args.lookups + 1
           ELSE /\ call.ret = call.args.stored
                /\ reader.lookups = call.args.lookups
        /\ reader.lookups <= 1

\* PhysioNet answered 1.0 at the first read; at a later read it would answer
\* 2.1.0, and the stored 1.0, which is not of the form, is returned
C19_Witness ==
    /\ call.op = "version"
    /\ call.args.stored = <<"1", ".", "0">>
    /\ call.args.lookup = <<"2", ".", "1", ".", "0">>
    /\ call.ret = <<"1", ".", "0">>
    /\ ~PHYSIONET_DB_VERSION_PATTERN(call.ret)
    /\ reader.lookups = 1
    /\ reader.reads >= 2

(***************************************************************************)
(* PSGDataBaseMixin.sleep_stage_intervals_to_mask                          *)
(*   src/torch_ecg/databases/base.py                                       *)
(*                                                                         *)
(* A dict is the sequence of its items [k, v] in insertion order.  An      *)
(* interval is <<s, e>>.  The optional class_map is [given, items].        *)
(***************************************************************************)
MaxSample == 3       \* largest sample index of an interval

KeyError == [ok |-> FALSE, kind |-> "KeyError"]

\* int(round(n / d)) of Python for n >= 0, d > 0: halves go to the even side
Round(n, d) ==
    LET q == n \div d
        r == n % d
    IN IF 2 * r < d THEN q
       ELSE IF 2 * r > d THEN q + 1
       ELSE IF q % 2 = 0 THEN q ELSE q + 1

\* {k: len(self.sleep_stage_names) - i - 1 for i, k in enumerate(self.sleep_stage_names)}
RECURSIVE DefaultClassMapFrom(_, _, _)
DefaultClassMapFrom(names, i, acc) ==
    IF i >= Len(names) THEN acc
    ELSE DefaultClassMapFrom(names, i + 1, DictSet(acc, names[i + 1], Len(names) - i - 1))
DefaultClassMap(names) == DefaultClassMapFrom(names, 0, <<>>)

\* [[int(round(s / fs / granularity)), int(round(e / fs / granularity))] for s, e in v]
Epochs(v, fs, granularity) ==
    [j \in 1..Len(v) |-> <<Round(v[j][1], fs * granularity), Round(v[j][2], fs * granularity)>>]

\* {class_map[k]: [...] for k, v in intervals.items()}, from item i on
RECURSIVE MapStages(_, _, _, _, _, _)
MapStages(intervals, class_map, fs, granularity, i, acc) ==
    IF i > Len(intervals) THEN [ok |-> TRUE, items |-> acc]
    ELSE IF intervals[i].k \notin Keys(class_map) THEN KeyError
    ELSE MapStages(intervals, class_map, fs, granularity, i + 1,
                   DictSet(acc, DictGet(class_map, intervals[i].k), Epochs(intervals[i].v, fs, granularity)))

NonEmptyRange(itv) == itv[1] < itv[2]
HasRanges(item) == Len(item.v) > 0

\* {k: [[s, e] for s, e in v if s < e] ...} and then the keys with len(v) > 0
DropEmpty(items) ==
    SelectSeq([i \in 1..Len(items) |-> [k |-> items[i].k, v |-> SelectSeq(items[i].v, NonEmptyRange)]], HasRanges)

\* [e for v in intervals.values() for s, e in v]
Ends(items) == UNION {{items[i].v[j][2] : j \in 1..Len(items[i].v)} : i \in 1..Len(items)}

\* max(...) of a non-empty collection of ints
max(S) == CHOOSE x \in S : \A y \in S : y <= x

RECURSIVE PaintStages(_, _, _)
PaintStages(mask, items, i) ==
    IF i > Len(items) THEN mask
    ELSE PaintStages(PaintIntervals(mask, items[i].v, items[i].k, 0, 1), items, i + 1)

\* fs and granularity are ints (None = -1 for fs); the reader has fs, and
\* sleep_stage_names when has_names
sleep_stage_intervals_to_mask(self, intervals, fs, granularity, class_map) ==
    LET fs_ == PyOr(fs, self.fs) IN
    IF ~(fs_ # None /\ fs_ > 0) THEN AssertionError
    ELSE IF ~(granularity > 0) THEN AssertionError
    ELSE IF ~self.has_names /\ ~class_map.given THEN AssertionError
    ELSE LET class_map_ == IF ~self.has_names THEN class_map.items
                           ELSE IF class_map.given /\ Len(class_map.items) > 0 THEN class_map.items
                           ELSE DefaultClassMap(self.sleep_stage_names)
             mapped == MapStages(intervals, class_map_, fs_, granularity, 1, <<>>)
         IN IF ~mapped.ok THEN mapped
            ELSE LET kept == DropEmpty(mapped.items)
                 IN IF Ends(kept) = {} THEN ValueError
                    ELSE LET siglen == max(Ends(kept))
                         IN [ok |-> TRUE, kind |-> "mask",
                             mask |-> PaintStages([p \in 1..siglen |-> 0], kept, 1)]

(***************************************************************************)
(* SpecPsg: a reader of a PSG database and one call of                     *)
(* sleep_stage_intervals_to_mask.                                          *)
(***************************************************************************)
sleep_stage_names == <<"W", "N1", "N2">>
Stages == Elements(sleep_stage_names)
Samples == 0..MaxSample
StageIntervals == {<<s, e>> : s \in Samples, e \in Samples}

\* dicts of intervals: empty, one stage with one or two intervals, two
\* stages with one interval each
IntervalDicts ==
    {<<>>}
    \cup {<<[k |-> a, v |-> <<x>>]>> : a \in Stages, x \in StageIntervals}
    \cup {<<[k |-> a, v |-> <<x, y>>]>> : a \in Stages, x \in StageIntervals, y \in StageIntervals}
    \cup {d \in {<<[k |-> a, v |-> <<x>>], [k |-> b, v |-> <<y>>]>> :
                    a \in Stages, b \in Stages, x \in StageIntervals, y \in StageIntervals} :
            d[1].k # d[2].k}

NoClassMap == [given |-> FALSE, items |-> <<>>]
ClassMap(items) == [given |-> TRUE, items |-> items]

\* class_map arguments: none, one class per stage, two stages sharing a class
ClassMaps ==
    {NoClassMap,
     ClassMap(<<[k |-> "W", v |-> 1], [k |-> "N1", v |-> 2], [k |-> "N2", v |-> 3]>>),
     ClassMap(<<[k |-> "W", v |-> 0], [k |-> "N1", v |-> 1], [k |-> "N2", v |-> 1]>>)}

FsArgs == {None, 0, -2, 2}
Granularities == {0, 1, 2}

PsgReaders ==
    {[class |-> "PSGDataBaseMixin", fs |-> f, has_names |-> h,
      sleep_stage_names |-> IF h THEN sleep_stage_names ELSE <<>>] :
        f \in {None, 1}, h \in BOOLEAN}

InitPsg ==
    /\ call = Idle
    /\ module = NoModule
    /\ self_cfg = NoCfg
    /\ nested_class = "CFG"
    /\ record = NoRecord
    /\ ann_file = NoFile
    /\ reader \in PsgReaders
    /\ disk = NoDisk

SleepStageIntervalsToMask ==
    /\ call.op = "idle"
    /\ \E intervals \in IntervalDicts, fs \in FsArgs, granularity \in Granularities, class_map \in ClassMaps :
        call' = [op |-> "sleep_stage_intervals_to_mask",
                 args |-> [intervals |-> intervals, fs |-> fs, granularity |-> granularity,
                           class_map |-> class_map],
                 ret |-> sleep_stage_intervals_to_mask(reader, intervals, fs, granularity, class_map)]
    /\ UNCHANGED <<reader, disk, denseVars, cfgVars, ltafVars>>

NextPsg ==
    \/ SleepStageIntervalsToMask

SpecPsg == InitPsg /\ [][NextPsg]_vars

\* the epoch ranges of the claim: every interval of every stage, by its
\* position <<i, j>> in the dict, mapped to epochs; empty ranges dropped
EpochRange(intervals, pos, fs, granularity) ==
    Epochs(intervals[pos[1]].v, fs, granularity)[pos[2]]
EpochRanges(intervals, fs, granularity) ==
    {pos \in {<<i, j>> : i \in 1..Len(intervals), j \in 1..2} :
        /\ pos[2] <= Len(intervals[pos[1]].v)
        /\ NonEmptyRange(EpochRange(intervals, pos, fs, granularity))}
Covering(intervals, fs, granularity, p) ==
    {pos \in EpochRanges(intervals, fs, granularity) :
        /\ EpochRange(intervals, pos, fs, granularity)[1] <= p
        /\ p < EpochRange(intervals, pos, fs, granularity)[2]}

\* the mask the claim describes, checked against a returned value
DocumentedMask(ret, intervals, fs, granularity, class_map) ==
    LET ranges == EpochRanges(intervals, fs, granularity)
        siglen == max({EpochRange(intervals, pos, fs, granularity)[2] : pos \in ranges})
    IN /\ ret.ok
       /\ Len(ret.mask) = siglen
       /\ \A p \in 0..(siglen - 1) :
            LET cov == Covering(intervals, fs, granularity, p)
            IN /\ cov = {} => ret.mask[p + 1] = 0
               /\ \A pos \in cov :
                    cov = {pos} => ret.mask[p + 1] = DictGet(class_map, intervals[pos[1]].k)

\* C21: sleep_stage_intervals_to_mask raises AssertionError for fs <= 0, for
\* granularity <= 0 and for a missing class_map on a reader without
\* sleep_stage_names; otherwise, with fs defaulting to the reader's and
\* class_map to name i -> len(sleep_stage_names) - i - 1, and at least one
\* non-empty epoch range, the mask is as long as the largest epoch end, holds
\* the class of the stage at every epoch covered by exactly one interval and
\* 0 at every uncovered epoch.
C21_IntervalsToMask ==
    (call.op = "sleep_stage_intervals_to_mask") =>
        LET a == call.args
            fs == IF a.fs = None THEN reader.fs ELSE a.fs
            class_map == IF a.class_map.given THEN a.class_map.items
                         ELSE DefaultClassMap(reader.sleep_stage_names)
        IN IF \/ a.fs # None /\ a.fs <= 0
              \/ a.granularity <= 0
              \/ ~reader.has_names /\ ~a.class_map.given
           THEN call.ret = AssertionError
           ELSE (fs # None /\ EpochRanges(a.intervals, fs, a.granularity) # {}) =>
                    DocumentedMask(call.ret, a.intervals, fs, a.granularity, class_map)

=============================================================================
